---- MODULE Spec2Model ----
(***************************************************************************)
(* The population pipeline and the query benchmark of the MongoDB lab:     *)
(* src/src/main.py (batched / streaming variant) and src/main.py (the      *)
(* first, unbatched variant).  A collection is the sequence of its         *)
(* documents in natural (insertion) order; an ObjectId is a positive       *)
(* integer drawn from a counter; a string that the queries take apart (a   *)
(* company name) is the sequence of its space-separated words; a date is   *)
(* a day number (days since 1970-01-01).                                   *)
(***************************************************************************)
EXTENDS Integers, Sequences, FiniteSets, TLC

\* ------------------------------------------------------------------ bounds
MaxCompanies == 2
MaxPersons == 3
MaxQueryRuns == 2
MaxBatch == 2

VARIABLES
    companies_ref,   \* db.companies_ref
    persons_ref,     \* db.persons_ref
    persons_emb,     \* db.persons_emb
    companies_emb,   \* db.companies_emb
    temp_comp,       \* db["__temp_comp"]
    indexes,         \* collection name -> the secondary indexes it carries
    nextId,          \* the next ObjectId the driver generates
    pc,              \* position of the running process ("idle": none runs)
    mode,            \* what the process was started as
    error,           \* the exception the last process died of, or "none"
    runs,            \* populate invocations so far
    queryRuns,       \* run_queries invocations since the last populate
    n_companies,     \* --n_companies of the populate invocation
    n_persons,       \* --n_persons of the populate invocation
    locals,          \* local variables of the running functions
    out,             \* what the running / last query process printed
    storeFaults      \* whether the store may reject a record or fail a call

db == <<companies_ref, persons_ref, persons_emb, companies_emb, temp_comp, indexes>>
vars == <<companies_ref, persons_ref, persons_emb, companies_emb, temp_comp,
          indexes, nextId, pc, mode, error, runs, queryRuns, n_companies,
          n_persons, locals, out, storeFaults>>

\* ----------------------------------------------------------------- helpers
Min(a, b) == IF a < b THEN a ELSE b
Max(a, b) == IF a > b THEN a ELSE b
Range(s) == {s[k] : k \in DOMAIN s}
\* (mutant) the slice ends one element early
SliceShort(s, i, n) == SubSeq(s, i + 1, Min(i + n, Len(s)) - 1)
\* Python's s[i : i + n] for 0-based i
Slice(s, i, n) == SubSeq(s, i + 1, Min(i + n, Len(s)))

RECURSIVE Flatten(_)
Flatten(ss) == IF ss = <<>> THEN <<>> ELSE Head(ss) \o Flatten(Tail(ss))

NoId == 0

\* --------------------------------------------------- the synthetic provider
\* Faker's company(): "<last name> <suffix>", the suffix never "Company".
CompanyNames == {<<"Smith", "Inc">>, <<"Jones", "LLC">>}
Addresses == {"1 Main St"}
FirstNames == {"Ann"}
LastNames == {"Lee"}

\* datetime(1988, 1, 1) as a day number
Q3Cutoff == 6574
Q3Age == 30
\* datetime.now().date(): 2026-11-03
Today == Q3Cutoff + 14186
\* date_between(start_date="-50y", end_date="today")
FoundedDates == {Today - 3650}
\* date_of_birth(minimum_age=18, maximum_age=80): 1987-12-31 and 1988-01-01
BirthDates == {Q3Cutoff - 1, Q3Cutoff}

\* int((now - bd).days // 365)
AgeStandard(bd) == (Today - bd) \div 365
\* int((now - bd).days // 365.25)
AgeBatched(bd) == (4 * (Today - bd)) \div 1461

NewCompany(name, address, founded) ==
    [_id |-> NoId, name |-> name, address |-> address, founded |-> founded]

\* generate_companies(fake, count), and the generation loop of
\* generate_and_populate_companies_batched: every list the provider can yield
GenerateCompanies(count) ==
    { [k \in 1..count |-> NewCompany(pick[k][1], pick[k][2], pick[k][3])] :
        pick \in [1..count -> CompanyNames \X Addresses \X FoundedDates] }

NewPerson(first, last, bd, age, cid) ==
    [_id |-> NoId, first_name |-> first, last_name |-> last,
     birth_date |-> bd, age |-> age, company_id |-> cid]

\* generate_persons(fake, count, company_ids): fake.random_element(company_ids)
generate_persons(count, company_ids) ==
    { [k \in 1..count |->
          NewPerson(pick[k][1], pick[k][2], pick[k][3], AgeStandard(pick[k][3]),
                    company_ids[pick[k][4]])] :
        pick \in [1..count -> FirstNames \X LastNames \X BirthDates
                                \X (1..Len(company_ids))] }

\* the generation loop of generate_and_populate_persons_batched:
\* company_ids[fake.random_int(0, num_companies - 1)]
GeneratePersonBatch(count, company_ids) ==
    { [k \in 1..count |->
          NewPerson(pick[k][1], pick[k][2], pick[k][3], AgeBatched(pick[k][3]),
                    company_ids[pick[k][4]])] :
        pick \in [1..count -> FirstNames \X LastNames \X BirthDates
                                \X (1..Len(company_ids))] }

\* ------------------------------------------------------------------ the store
Collections == {"companies_ref", "persons_ref", "persons_emb", "companies_emb",
                "__temp_comp"}

\* Which record of a bulk insert the store rejects (0: none).
RejectChoices(n) == IF storeFaults THEN 0..n ELSE {0}
\* Whether the store fails a query or update.
FailChoices == IF storeFaults THEN {FALSE, TRUE} ELSE {FALSE}

\* (mutant) every document gets a fresh ObjectId, also one that carries an _id
WithNewIds(docs, first) ==
    [k \in DOMAIN docs |-> [docs[k] EXCEPT !._id = first + k - 1]]

\* The driver gives every document without an _id a fresh ObjectId, in place,
\* before it sends the batch.
DocsLackId(docs) == \E k \in DOMAIN docs : docs[k]._id = NoId
WithIds(docs, first) ==
    [k \in DOMAIN docs |->
        IF docs[k]._id = NoId THEN [docs[k] EXCEPT !._id = first + k - 1]
        ELSE docs[k]]

\* What the store keeps of a batch whose rej-th record it rejects: an ordered
\* insert stops there, an unordered one goes on with the rest.
Accepted(docs, ordered, rej) ==
    IF rej = 0 THEN docs
    ELSE IF ordered THEN SubSeq(docs, 1, rej - 1)
    ELSE SubSeq(docs, 1, rej - 1) \o SubSeq(docs, rej + 1, Len(docs))

\* (mutant) inserted_ids come back last document first
insert_many_ids_reversed(coll, docs, ordered, rej) ==
    LET withIds == WithIds(docs, nextId)
    IN  [ coll |-> coll \o Accepted(withIds, ordered, rej),
          docs |-> withIds,
          inserted_ids |-> [k \in DOMAIN withIds |->
                               withIds[Len(withIds) + 1 - k]._id],
          nextId |-> IF DocsLackId(docs) THEN nextId + Len(docs) ELSE nextId,
          error |-> IF rej = 0 THEN "none" ELSE "BulkWriteError" ]

\* Collection.insert_many(docs, ordered): the collection afterwards, the
\* documents as mutated in place, the inserted ids, and BulkWriteError when
\* a record was rejected (it is raised after the batch was attempted).
insert_many(coll, docs, ordered, rej) ==
    LET withIds == WithIds(docs, nextId)
    IN  [ coll |-> coll \o Accepted(withIds, ordered, rej),
          docs |-> withIds,
          inserted_ids |-> [k \in DOMAIN withIds |-> withIds[k]._id],
          nextId |-> IF DocsLackId(docs) THEN nextId + Len(docs) ELSE nextId,
          error |-> IF rej = 0 THEN "none" ELSE "BulkWriteError" ]

\* create_index calls of the four builders of src/src/main.py
CompaniesRefIndexes == {"name_1", "founded_1", "name_text"}
PersonsRefIndexes ==
    {"company_id_1", "birth_date_1", "age_1", "last_name_1", "first_name_1_last_name_1"}
PersonsEmbIndexes ==
    {"company._id_1", "birth_date_1", "age_1", "first_name_1_last_name_1", "company.name_1"}
CompaniesEmbIndexes ==
    {"name_1", "founded_1", "employees.last_name_1", "employees.birth_date_1", "name_text"}

\* ------------------------------------------------------- threshold dispatcher
\* The thresholds and batch sizes of populate_data, scaled down so that the
\* collections stay enumerable; the source's value is given beside each.
Sizes ==
    [ company_threshold |-> 2,   \* 10_000   n_companies > 10_000
      person_threshold  |-> 2,   \* 100_000  n_persons > 100_000
      stream_cap        |-> 2,   \* 50_000   min(50_000, ...)
      company_div       |-> 2,   \* 100      n_companies // 100
      person_div        |-> 1,   \* 1_000    n_persons // 1_000
      m2_window         |-> 2,   \* 25_000   populate_M2_optimized(batch_size=25_000)
      m3_window         |-> 2,   \* 2_500    populate_M3_optimized(batch_size=2_500)
      temp_cap          |-> 2,   \* 10_000   min(10_000, n_companies)
      gen_person_cap    |-> 1,   \* 50_000   min(50_000, n_persons)
      insert_small      |-> 1,   \* 50_000   batch_size_insert when n_persons > 100_000
      insert_large      |-> 2,   \* 100_000  batch_size_insert otherwise
      m3_cap            |-> 2,   \* 5_000    min(5_000, ...)
      m3_div            |-> 2 ]  \* 10       len(companies) // 10

UseOptimized(nc, np) == nc > Sizes.company_threshold \/ np > Sizes.person_threshold
CompaniesBatchSize(nc) == Min(Sizes.stream_cap, Max(1, nc \div Sizes.company_div))
PersonsBatchSize(np) == Min(Sizes.stream_cap, Max(1, np \div Sizes.person_div))
BatchSizeCompanies(nc) == Min(Sizes.temp_cap, nc)
BatchSizePersons(np) == Min(Sizes.gen_person_cap, np)
BatchSizeInsert(np) ==
    IF np > Sizes.person_threshold THEN Sizes.insert_small ELSE Sizes.insert_large
M3BatchSize(ncompanies) == Min(Sizes.m3_cap, Max(1, ncompanies \div Sizes.m3_div))

\* ----------------------------------------------------------- process state
Locals0 ==
    [ total |-> 0, batch_size |-> 0, i |-> 0,
      all_company_ids |-> <<>>, company_ids |-> <<>>,
      companies |-> <<>>, persons |-> <<>>, comp_ids |-> <<>>, m1_comp_ids |-> <<>>,
      cursor |-> 0, batch_persons |-> <<>>, companies_batch |-> <<>>,
      company_employees |-> <<>>, processed |-> 0, batch_count |-> 0 ]

QueryOps == {"M1_Q1", "M1_Q2", "M1_Q3", "M1_Q4", "M2_Q1", "M2_Q2", "M2_Q3",
             "M2_Q4", "M3_Q1", "M3_Q2", "M3_Q3", "M3_Q4"}
NotReported == -1
Out0 == [op \in QueryOps |-> NotReported]

\* An uncaught exception ends the process; the collections stay as they are.
Raise(exc) == pc' = "idle" /\ error' = exc /\ locals' = Locals0
\* The process ends normally.
Return == pc' = "idle" /\ error' = "none" /\ locals' = Locals0

InitWith(faults) ==
    /\ companies_ref = <<>> /\ persons_ref = <<>>
    /\ persons_emb = <<>> /\ companies_emb = <<>> /\ temp_comp = <<>>
    /\ indexes = [c \in Collections |-> {}]
    /\ nextId = 1
    /\ pc = "idle" /\ mode = "none" /\ error = "none"
    /\ runs = 0 /\ queryRuns = 0
    /\ n_companies = 0 /\ n_persons = 0
    /\ locals = Locals0
    /\ out = Out0
    /\ storeFaults = faults

Init == InitWith(FALSE)

\* ------------------------------------------------------------------- main()
\* `populate --n_companies nc --n_persons np`
main_populate ==
    /\ pc = "idle" /\ runs = 0
    /\ \E nc \in 0..MaxCompanies, np \in 0..MaxPersons :
          /\ n_companies' = nc
          /\ n_persons' = np
    /\ pc' = "populate_data"
    /\ mode' = "populate"
    /\ error' = "none"
    /\ runs' = runs + 1
    /\ queryRuns' = 0
    /\ locals' = Locals0
    /\ UNCHANGED <<db, nextId, out, storeFaults>>

\* populate_data up to its first loop: the threshold test; on the standard
\* path also the lines before the company generation loop, whose
\* range(0, n_companies, batch_size_companies) raises on a step of 0.
populate_data ==
    /\ pc = "populate_data"
    /\ IF UseOptimized(n_companies, n_persons)
       THEN /\ locals' = [locals EXCEPT !.total = n_companies,
                                        !.batch_size = CompaniesBatchSize(n_companies)]
            /\ pc' = "gapc_begin"
            /\ UNCHANGED <<temp_comp, indexes, error>>
       ELSE /\ temp_comp' = <<>>
            /\ indexes' = [indexes EXCEPT !["__temp_comp"] = {}]
            /\ IF BatchSizeCompanies(n_companies) = 0
               THEN Raise("ValueError")
               ELSE /\ locals' = [locals EXCEPT !.companies = <<>>, !.i = 0,
                                      !.batch_size = BatchSizeCompanies(n_companies)]
                    /\ pc' = "std_companies"
                    /\ UNCHANGED error
    /\ UNCHANGED <<companies_ref, persons_ref, persons_emb, companies_emb, nextId,
                   mode, runs, queryRuns, n_companies, n_persons, out, storeFaults>>

\* ------------------------------------ generate_and_populate_companies_batched
gapc_begin ==
    /\ pc = "gapc_begin"
    /\ companies_ref' = <<>>
    /\ indexes' = [indexes EXCEPT !["companies_ref"] = CompaniesRefIndexes]
    /\ locals' = [locals EXCEPT !.all_company_ids = <<>>, !.i = 0]
    /\ pc' = "gapc_loop"
    /\ UNCHANGED <<persons_ref, persons_emb, companies_emb, temp_comp, nextId, mode,
                   error, runs, queryRuns, n_companies, n_persons, out, storeFaults>>

\* One pass of `for i in range(0, total_companies, batch_size)`, or the return
\* of all_company_ids to the caller, which goes on to load the persons.
gapc_loop ==
    /\ pc = "gapc_loop"
    /\ IF locals.i < locals.total
       THEN \E company_batch \in
                  GenerateCompanies(Min(locals.batch_size, locals.total - locals.i)) :
            \E rej \in RejectChoices(Len(company_batch)) :
               LET result == insert_many(companies_ref, company_batch, FALSE, rej)
               IN  /\ companies_ref' = result.coll
                   /\ nextId' = result.nextId
                   /\ IF result.error # "none"
                      THEN Raise(result.error)
                      ELSE /\ locals' = [locals EXCEPT
                                  !.all_company_ids = @ \o result.inserted_ids,
                                  !.i = @ + locals.batch_size]
                           /\ UNCHANGED <<pc, error>>
       ELSE /\ IF mode # "populate"
               THEN /\ pc' = "idle"
                    /\ locals' = [Locals0 EXCEPT
                           !.company_ids = locals.all_company_ids]
                    /\ UNCHANGED error
               ELSE /\ locals' = [locals EXCEPT
                           !.company_ids = locals.all_company_ids,
                           !.total = n_persons,
                           !.batch_size = PersonsBatchSize(n_persons)]
                    /\ pc' = "gapp_begin"
                    /\ UNCHANGED error
            /\ UNCHANGED <<companies_ref, nextId>>
    /\ UNCHANGED <<persons_ref, persons_emb, companies_emb, temp_comp, indexes, mode,
                   runs, queryRuns, n_companies, n_persons, out, storeFaults>>

\* -------------------------------------- generate_and_populate_persons_batched
gapp_begin ==
    /\ pc = "gapp_begin"
    /\ persons_ref' = <<>>
    /\ indexes' = [indexes EXCEPT !["persons_ref"] = PersonsRefIndexes]
    /\ locals' = [locals EXCEPT !.i = 0]
    /\ pc' = "gapp_loop"
    /\ UNCHANGED <<companies_ref, persons_emb, companies_emb, temp_comp, nextId, mode,
                   error, runs, queryRuns, n_companies, n_persons, out, storeFaults>>

\* One pass of `for i in range(0, total_persons, batch_size)`;
\* fake.random_int(0, num_companies - 1) raises on an empty company_ids.
gapp_loop ==
    /\ pc = "gapp_loop"
    /\ IF locals.i < locals.total
       THEN IF Len(locals.company_ids) = 0
            THEN /\ Raise("ValueError")
                 /\ UNCHANGED <<persons_ref, nextId>>
            ELSE \E person_batch \in
                       GeneratePersonBatch(Min(locals.batch_size, locals.total - locals.i),
                                           locals.company_ids) :
                 \E rej \in RejectChoices(Len(person_batch)) :
                    LET result == insert_many(persons_ref, person_batch, FALSE, rej)
                    IN  /\ persons_ref' = result.coll
                        /\ nextId' = result.nextId
                        /\ IF result.error # "none"
                           THEN Raise(result.error)
                           ELSE /\ locals' = [locals EXCEPT !.i = @ + locals.batch_size]
                                /\ UNCHANGED <<pc, error>>
       ELSE /\ IF mode # "populate"
               THEN Return
               ELSE /\ locals' = [locals EXCEPT !.batch_size = Sizes.m2_window]
                    /\ pc' = "m2o_begin"
                    /\ UNCHANGED error
            /\ UNCHANGED <<persons_ref, nextId>>
    /\ UNCHANGED <<companies_ref, persons_emb, companies_emb, temp_comp, indexes, mode,
                   runs, queryRuns, n_companies, n_persons, out, storeFaults>>

\* ------------------------------------------------------ denormalization steps
HasId(coll, id) == \E k \in DOMAIN coll : coll[k]._id = id
\* dict comprehension over a find(): the last document with the key wins
LastWithId(coll, id) ==
    coll[CHOOSE k \in DOMAIN coll :
            /\ coll[k]._id = id
            /\ \A j \in DOMAIN coll : coll[j]._id = id => j <= k]
\* next(... for c in companies if ...): the first match
FirstWithId(coll, id) ==
    coll[CHOOSE k \in DOMAIN coll :
            /\ coll[k]._id = id
            /\ \A j \in DOMAIN coll : coll[j]._id = id => k <= j]

EmbedPerson(p, c) ==
    [_id |-> NoId, first_name |-> p.first_name, last_name |-> p.last_name,
     birth_date |-> p.birth_date, age |-> p.age,
     company |-> [_id |-> c._id, name |-> c.name, address |-> c.address]]

Employee(p) ==
    [first_name |-> p.first_name, last_name |-> p.last_name,
     birth_date |-> p.birth_date, age |-> p.age]

\* (mutant) the first matching person is left out
EmployeesOfOffByOne(persons, cid) ==
    LET mine == SelectSeq(persons, LAMBDA p : p.company_id = cid)
    IN  [k \in 1..(Len(mine) - 1) |-> Employee(mine[k + 1])]

EmployeesOf(persons, cid) ==
    LET mine == SelectSeq(persons, LAMBDA p : p.company_id = cid)
    IN  [k \in DOMAIN mine |-> Employee(mine[k])]

EmbedCompany(c, employees) ==
    [_id |-> NoId, name |-> c.name, address |-> c.address, founded |-> c.founded,
     employees |-> employees]

\* comp_coll.find({"_id": {"$in": company_ids}})
FindIn(comp_coll, company_ids) == SelectSeq(comp_coll, LAMBDA c : c._id \in company_ids)

\* (mutant) one lookup per person of the window instead of one per window
insert_person_batches_per_person(persons, comp_coll, pers_emb_coll, rej) ==
    LET lookups == [k \in DOMAIN persons |-> {persons[k].company_id}]
        found == [k \in DOMAIN persons |-> FindIn(comp_coll, lookups[k])]
    IN  IF \E k \in DOMAIN persons : found[k] = <<>>
        THEN [coll |-> pers_emb_coll, nextId |-> nextId, error |-> "KeyError",
              lookups |-> lookups]
        ELSE LET docs == [k \in DOMAIN persons |->
                            EmbedPerson(persons[k], found[k][Len(found[k])])]
                 result == insert_many(pers_emb_coll, docs, FALSE, rej)
             IN  [coll |-> result.coll, nextId |-> result.nextId,
                  error |-> result.error, lookups |-> lookups]

\* _insert_person_batches: the set of the window's company ids, one $in lookup
\* over it (lookups: the finds issued on companies_ref), company_dict built
\* from what it returns, company_dict[p["company_id"]] (KeyError when absent),
\* one insert_many.
insert_person_batches(persons, comp_coll, pers_emb_coll, rej) ==
    LET company_ids == {persons[k].company_id : k \in DOMAIN persons}
        lookups == <<company_ids>>
        found == FindIn(comp_coll, lookups[1])
        company_dict == [cid \in {found[k]._id : k \in DOMAIN found} |->
                            LastWithId(found, cid)]
    IN  IF \E k \in DOMAIN persons : persons[k].company_id \notin DOMAIN company_dict
        THEN [coll |-> pers_emb_coll, nextId |-> nextId, error |-> "KeyError",
              lookups |-> lookups]
        ELSE LET docs == [k \in DOMAIN persons |->
                            EmbedPerson(persons[k], company_dict[persons[k].company_id])]
                 result == insert_many(pers_emb_coll, docs, FALSE, rej)
             IN  [coll |-> result.coll, nextId |-> result.nextId,
                  error |-> result.error, lookups |-> lookups]

\* The $group pipeline of populate_M3_optimized: company_id -> employees
GroupEmployees(pers_coll) ==
    [cid \in {pers_coll[k].company_id : k \in DOMAIN pers_coll} |->
        EmployeesOf(pers_coll, cid)]

\* (mutant) companies absent from company_employees are not inserted
insert_company_batches_skipping(companies, company_employees, comp_coll, rej) ==
    LET present == SelectSeq(companies, LAMBDA c : c._id \in DOMAIN company_employees)
        docs == [k \in DOMAIN present |->
                    EmbedCompany(present[k], company_employees[present[k]._id])]
        result == insert_many(comp_coll, docs, FALSE, rej)
    IN  [coll |-> result.coll, nextId |-> result.nextId, error |-> result.error]

\* _insert_company_batches: company_employees.get(c["_id"], [])
insert_company_batches(companies, company_employees, comp_coll, rej) ==
    LET docs == [k \in DOMAIN companies |->
                    EmbedCompany(companies[k],
                        IF companies[k]._id \in DOMAIN company_employees
                        THEN company_employees[companies[k]._id] ELSE <<>>)]
        result == insert_many(comp_coll, docs, FALSE, rej)
    IN  [coll |-> result.coll, nextId |-> result.nextId, error |-> result.error]

\* ------------------------------------------------------ populate_M2_optimized
m2o_begin ==
    /\ pc = "m2o_begin"
    /\ persons_emb' = <<>>
    /\ indexes' = [indexes EXCEPT !["persons_emb"] = PersonsEmbIndexes]
    /\ locals' = [locals EXCEPT !.total = Len(persons_ref), !.processed = 0,
                                !.cursor = 0, !.batch_persons = <<>>]
    /\ pc' = "m2o_loop"
    /\ UNCHANGED <<companies_ref, persons_ref, companies_emb, temp_comp, nextId, mode,
                   error, runs, queryRuns, n_companies, n_persons, out, storeFaults>>

\* One pass of `for person in cursor` (buffer the person; insert and empty the
\* window once it holds batch_size persons), or, the cursor exhausted, the
\* insert of the last, shorter window and the call of populate_M3_optimized.
m2o_loop ==
    /\ pc = "m2o_loop"
    /\ IF locals.cursor < Len(persons_ref)
       THEN LET batch_persons == Append(locals.batch_persons,
                                        persons_ref[locals.cursor + 1])
            IN  IF Len(batch_persons) >= locals.batch_size
                THEN \E rej \in RejectChoices(Len(batch_persons)) :
                       LET result == insert_person_batches(batch_persons, companies_ref,
                                                           persons_emb, rej)
                       IN  /\ persons_emb' = result.coll
                           /\ nextId' = result.nextId
                           /\ IF result.error # "none"
                              THEN Raise(result.error)
                              ELSE /\ locals' = [locals EXCEPT
                                          !.cursor = @ + 1,
                                          !.processed = @ + Len(batch_persons),
                                          !.batch_persons = <<>>]
                                   /\ UNCHANGED <<pc, error>>
                ELSE /\ locals' = [locals EXCEPT !.cursor = @ + 1,
                                                 !.batch_persons = batch_persons]
                     /\ UNCHANGED <<persons_emb, nextId, pc, error>>
       ELSE \E rej \in RejectChoices(Len(locals.batch_persons)) :
              LET result == IF locals.batch_persons # <<>>
                            THEN insert_person_batches(locals.batch_persons,
                                                       companies_ref, persons_emb, rej)
                            ELSE [coll |-> persons_emb, nextId |-> nextId,
                                  error |-> "none"]
              IN  /\ locals.batch_persons = <<>> => rej = 0
                  /\ persons_emb' = result.coll
                  /\ nextId' = result.nextId
                  /\ IF result.error # "none"
                     THEN Raise(result.error)
                     ELSE IF mode # "populate"
                          THEN Return
                          ELSE /\ locals' = [locals EXCEPT
                                      !.batch_persons = <<>>,
                                      !.batch_size = Sizes.m3_window]
                               /\ pc' = "m3o_begin"
                               /\ UNCHANGED error
    /\ UNCHANGED <<companies_ref, persons_ref, companies_emb, temp_comp, indexes, mode,
                   runs, queryRuns, n_companies, n_persons, out, storeFaults>>

\* ------------------------------------------------------ populate_M3_optimized
m3o_begin ==
    /\ pc = "m3o_begin"
    /\ companies_emb' = <<>>
    /\ indexes' = [indexes EXCEPT !["companies_emb"] = CompaniesEmbIndexes]
    /\ locals' = [locals EXCEPT !.company_employees = GroupEmployees(persons_ref),
                                !.cursor = 0, !.companies_batch = <<>>,
                                !.batch_count = 0]
    /\ pc' = "m3o_loop"
    /\ UNCHANGED <<companies_ref, persons_ref, persons_emb, temp_comp, nextId, mode,
                   error, runs, queryRuns, n_companies, n_persons, out, storeFaults>>

\* One pass of `for comp in companies_cursor`, or, the cursor exhausted, the
\* insert of the last window and the end of populate_data.
m3o_loop ==
    /\ pc = "m3o_loop"
    /\ IF locals.cursor < Len(companies_ref)
       THEN LET companies_batch == Append(locals.companies_batch,
                                          companies_ref[locals.cursor + 1])
            IN  IF Len(companies_batch) >= locals.batch_size
                THEN \E rej \in RejectChoices(Len(companies_batch)) :
                       LET result == insert_company_batches(companies_batch,
                                         locals.company_employees, companies_emb, rej)
                       IN  /\ companies_emb' = result.coll
                           /\ nextId' = result.nextId
                           /\ IF result.error # "none"
                              THEN Raise(result.error)
                              ELSE /\ locals' = [locals EXCEPT
                                          !.cursor = @ + 1,
                                          !.batch_count = @ + 1,
                                          !.companies_batch = <<>>]
                                   /\ UNCHANGED <<pc, error>>
                ELSE /\ locals' = [locals EXCEPT !.cursor = @ + 1,
                                                 !.companies_batch = companies_batch]
                     /\ UNCHANGED <<companies_emb, nextId, pc, error>>
       ELSE \E rej \in RejectChoices(Len(locals.companies_batch)) :
              LET result == IF locals.companies_batch # <<>>
                            THEN insert_company_batches(locals.companies_batch,
                                     locals.company_employees, companies_emb, rej)
                            ELSE [coll |-> companies_emb, nextId |-> nextId,
                                  error |-> "none"]
              IN  /\ locals.companies_batch = <<>> => rej = 0
                  /\ companies_emb' = result.coll
                  /\ nextId' = result.nextId
                  /\ IF result.error # "none" THEN Raise(result.error) ELSE Return
    /\ UNCHANGED <<companies_ref, persons_ref, persons_emb, temp_comp, indexes, mode,
                   runs, queryRuns, n_companies, n_persons, out, storeFaults>>

\* ------------------------------------------ populate_data, the standard path
\* insert_many mutates the dicts of the slice it was given
ReplaceSlice(list, i, docs) ==
    [k \in DOMAIN list |->
        IF k > i /\ k <= i + Len(docs) THEN docs[k - i] ELSE list[k]]

\* for comp, _id in zip(companies, ids): comp["_id"] = _id
SyncIds(companies, ids) ==
    [k \in DOMAIN companies |->
        IF k <= Len(ids) THEN [companies[k] EXCEPT !._id = ids[k]] ELSE companies[k]]

\* One pass of the company generation loop (ids come from __temp_comp), or the
\* lines after it up to the person generation loop, whose
\* range(0, n_persons, batch_size_persons) raises on a step of 0.
std_companies ==
    /\ pc = "std_companies"
    /\ IF locals.i < n_companies
       THEN \E company_batch \in
                  GenerateCompanies(Min(locals.batch_size, n_companies - locals.i)) :
            \E rej \in RejectChoices(Len(company_batch)) :
               LET result == insert_many(temp_comp, company_batch, TRUE, rej)
               IN  /\ temp_comp' = result.coll
                   /\ nextId' = result.nextId
                   /\ IF result.error # "none"
                      THEN Raise(result.error)
                      ELSE /\ locals' = [locals EXCEPT
                                  !.companies = @ \o SyncIds(result.docs,
                                                             result.inserted_ids),
                                  !.i = @ + locals.batch_size]
                           /\ UNCHANGED <<pc, error>>
                   /\ UNCHANGED indexes
       ELSE /\ temp_comp' = <<>>
            /\ indexes' = [indexes EXCEPT !["__temp_comp"] = {}]
            /\ IF BatchSizePersons(n_persons) = 0
               THEN Raise("ValueError")
               ELSE /\ locals' = [locals EXCEPT
                           !.comp_ids = [k \in DOMAIN locals.companies |->
                                            locals.companies[k]._id],
                           !.persons = <<>>, !.i = 0,
                           !.batch_size = BatchSizePersons(n_persons)]
                    /\ pc' = "std_persons"
                    /\ UNCHANGED error
            /\ UNCHANGED nextId
    /\ UNCHANGED <<companies_ref, persons_ref, persons_emb, companies_emb, mode,
                   runs, queryRuns, n_companies, n_persons, out, storeFaults>>

\* One pass of the person generation loop, or the call of populate_M1.
std_persons ==
    /\ pc = "std_persons"
    /\ IF locals.i < n_persons
       THEN \E person_batch \in
                  generate_persons(Min(locals.batch_size, n_persons - locals.i),
                                   locals.comp_ids) :
               /\ locals' = [locals EXCEPT !.persons = @ \o person_batch,
                                           !.i = @ + locals.batch_size]
               /\ UNCHANGED pc
       ELSE /\ locals' = [locals EXCEPT !.batch_size = BatchSizeInsert(n_persons)]
            /\ pc' = "M1_begin"
    /\ UNCHANGED <<db, nextId, mode, error, runs, queryRuns, n_companies, n_persons,
                   out, storeFaults>>

\* ----------------------------------------------------------------- populate_M1
M1_begin ==
    /\ pc = "M1_begin"
    /\ companies_ref' = <<>>
    /\ persons_ref' = <<>>
    /\ indexes' = [indexes EXCEPT !["companies_ref"] = {}, !["persons_ref"] = {}]
    /\ locals' = [locals EXCEPT !.m1_comp_ids = <<>>, !.i = 0]
    /\ pc' = "M1_companies"
    /\ UNCHANGED <<persons_emb, companies_emb, temp_comp, nextId, mode, error, runs,
                   queryRuns, n_companies, n_persons, out, storeFaults>>

\* One pass of `for i in range(0, len(companies), batch_size)`, or the id sync
\* after it.
M1_companies ==
    /\ pc = "M1_companies"
    /\ IF locals.i < Len(locals.companies)
       THEN LET batch == Slice(locals.companies, locals.i, locals.batch_size)
            IN  \E rej \in RejectChoices(Len(batch)) :
                  LET result == insert_many(companies_ref, batch, TRUE, rej)
                  IN  /\ companies_ref' = result.coll
                      /\ nextId' = result.nextId
                      /\ IF result.error # "none"
                         THEN Raise(result.error)
                         ELSE /\ locals' = [locals EXCEPT
                                     !.companies = ReplaceSlice(@, locals.i, result.docs),
                                     !.m1_comp_ids = @ \o result.inserted_ids,
                                     !.i = @ + locals.batch_size]
                              /\ UNCHANGED <<pc, error>>
       ELSE /\ locals' = [locals EXCEPT
                   !.companies = SyncIds(@, locals.m1_comp_ids), !.i = 0]
            /\ pc' = "M1_persons"
            /\ UNCHANGED <<companies_ref, nextId, error>>
    /\ UNCHANGED <<persons_ref, persons_emb, companies_emb, temp_comp, indexes, mode,
                   runs, queryRuns, n_companies, n_persons, out, storeFaults>>

\* One pass of `for i in range(0, len(persons), batch_size)`, or the summary
\* after it (len(persons) / len(companies)) and the call of populate_M2.
M1_persons ==
    /\ pc = "M1_persons"
    /\ IF locals.i < Len(locals.persons)
       THEN LET batch == Slice(locals.persons, locals.i, locals.batch_size)
            IN  \E rej \in RejectChoices(Len(batch)) :
                  LET result == insert_many(persons_ref, batch, TRUE, rej)
                  IN  /\ persons_ref' = result.coll
                      /\ nextId' = result.nextId
                      /\ IF result.error # "none"
                         THEN Raise(result.error)
                         ELSE /\ locals' = [locals EXCEPT
                                     !.persons = ReplaceSlice(@, locals.i, result.docs),
                                     !.i = @ + locals.batch_size]
                              /\ UNCHANGED <<pc, error>>
       ELSE /\ IF Len(locals.companies) = 0
               THEN Raise("ZeroDivisionError")
               ELSE IF mode # "populate"
               THEN Return
               ELSE /\ pc' = "M2_begin"
                    /\ UNCHANGED <<locals, error>>
            /\ UNCHANGED <<persons_ref, nextId>>
    /\ UNCHANGED <<companies_ref, persons_emb, companies_emb, temp_comp, indexes, mode,
                   runs, queryRuns, n_companies, n_persons, out, storeFaults>>

\* ----------------------------------------------------------------- populate_M2
\* (mutant) persons_emb is appended to, not dropped
M2_begin_appending ==
    /\ pc = "M2_begin"
    /\ locals' = [locals EXCEPT !.i = 0]
    /\ pc' = "M2_loop"
    /\ UNCHANGED <<db, nextId, mode, error, runs, queryRuns, n_companies, n_persons,
                   out, storeFaults>>

M2_begin ==
    /\ pc = "M2_begin"
    /\ persons_emb' = <<>>
    /\ indexes' = [indexes EXCEPT !["persons_emb"] = {}]
    /\ locals' = [locals EXCEPT !.i = 0]
    /\ pc' = "M2_loop"
    /\ UNCHANGED <<companies_ref, persons_ref, companies_emb, temp_comp, nextId, mode,
                   error, runs, queryRuns, n_companies, n_persons, out, storeFaults>>

\* The persons_emb list of one batch: next(...) raises StopIteration when no
\* company carries the person's company_id.
M2Batch(batch_persons, companies, pers_coll, rej) ==
    IF \E k \in DOMAIN batch_persons : ~HasId(companies, batch_persons[k].company_id)
    THEN [coll |-> pers_coll, nextId |-> nextId, error |-> "StopIteration"]
    ELSE LET docs == [k \in DOMAIN batch_persons |->
                        EmbedPerson(batch_persons[k],
                                    FirstWithId(companies, batch_persons[k].company_id))]
             result == insert_many(pers_coll, docs, TRUE, rej)
         IN  [coll |-> result.coll, nextId |-> result.nextId, error |-> result.error]

\* One pass of `for i in range(0, len(persons), batch_size)`, or the call of
\* populate_M3.
M2_loop ==
    /\ pc = "M2_loop"
    /\ IF locals.i < Len(locals.persons)
       THEN LET batch_persons == Slice(locals.persons, locals.i, locals.batch_size)
            IN  \E rej \in RejectChoices(Len(batch_persons)) :
                  LET result == M2Batch(batch_persons, locals.companies, persons_emb, rej)
                  IN  /\ persons_emb' = result.coll
                      /\ nextId' = result.nextId
                      /\ IF result.error # "none"
                         THEN Raise(result.error)
                         ELSE /\ locals' = [locals EXCEPT !.i = @ + locals.batch_size]
                              /\ UNCHANGED <<pc, error>>
       ELSE /\ IF mode # "populate"
               THEN Return
               ELSE /\ locals' = [locals EXCEPT
                           !.batch_size = M3BatchSize(Len(locals.companies))]
                    /\ pc' = "M3_begin"
                    /\ UNCHANGED error
            /\ UNCHANGED <<persons_emb, nextId>>
    /\ UNCHANGED <<companies_ref, persons_ref, companies_emb, temp_comp, indexes, mode,
                   runs, queryRuns, n_companies, n_persons, out, storeFaults>>

\* ----------------------------------------------------------------- populate_M3
M3_begin ==
    /\ pc = "M3_begin"
    /\ companies_emb' = <<>>
    /\ indexes' = [indexes EXCEPT !["companies_emb"] = {}]
    /\ locals' = [locals EXCEPT !.i = 0]
    /\ pc' = "M3_loop"
    /\ UNCHANGED <<companies_ref, persons_ref, persons_emb, temp_comp, nextId, mode,
                   error, runs, queryRuns, n_companies, n_persons, out, storeFaults>>

\* The comp_docs list of one batch: each company with the persons whose
\* company_id is its _id
M3Batch(batch_companies, persons, comp_coll, rej) ==
    LET docs == [k \in DOMAIN batch_companies |->
                    EmbedCompany(batch_companies[k],
                                 EmployeesOf(persons, batch_companies[k]._id))]
        result == insert_many(comp_coll, docs, TRUE, rej)
    IN  [coll |-> result.coll, nextId |-> result.nextId, error |-> result.error]

\* One pass of `for i in range(0, len(companies), batch_size)`, or the end of
\* populate_data.
M3_loop ==
    /\ pc = "M3_loop"
    /\ IF locals.i < Len(locals.companies)
       THEN LET batch_companies == Slice(locals.companies, locals.i, locals.batch_size)
            IN  \E rej \in RejectChoices(Len(batch_companies)) :
                  LET result == M3Batch(batch_companies, locals.persons,
                                        companies_emb, rej)
                  IN  /\ companies_emb' = result.coll
                      /\ nextId' = result.nextId
                      /\ IF result.error # "none"
                         THEN Raise(result.error)
                         ELSE /\ locals' = [locals EXCEPT !.i = @ + locals.batch_size]
                              /\ UNCHANGED <<pc, error>>
       ELSE /\ Return
            /\ UNCHANGED <<companies_emb, nextId>>
    /\ UNCHANGED <<companies_ref, persons_ref, persons_emb, temp_comp, indexes, mode,
                   runs, queryRuns, n_companies, n_persons, out, storeFaults>>

\* ------------------------------------------------ the builders as whole runs
\* The steps above composed over all windows of a run against a store that
\* rejects nothing: what a builder leaves in its target collection.
RECURSIVE Windows(_, _)
Windows(docs, n) ==
    IF docs = <<>> THEN <<>>
    ELSE <<SubSeq(docs, 1, Min(n, Len(docs)))>>
         \o Windows(SubSeq(docs, Min(n, Len(docs)) + 1, Len(docs)), n)

RECURSIVE PersonWindowsInserted(_, _, _)
PersonWindowsInserted(windows, comp_coll, acc) ==
    IF windows = <<>> \/ acc.error # "none" THEN acc
    ELSE PersonWindowsInserted(Tail(windows), comp_coll,
             insert_person_batches(Head(windows), comp_coll, acc.coll, 0))

RECURSIVE CompanyWindowsInserted(_, _, _)
CompanyWindowsInserted(windows, company_employees, acc) ==
    IF windows = <<>> \/ acc.error # "none" THEN acc
    ELSE CompanyWindowsInserted(Tail(windows), company_employees,
             insert_company_batches(Head(windows), company_employees, acc.coll, 0))

RECURSIVE M2BatchesInserted(_, _, _)
M2BatchesInserted(batches, companies, acc) ==
    IF batches = <<>> \/ acc.error # "none" THEN acc
    ELSE M2BatchesInserted(Tail(batches), companies,
             M2Batch(Head(batches), companies, acc.coll, 0))

RECURSIVE M3BatchesInserted(_, _, _)
M3BatchesInserted(batches, persons, acc) ==
    IF batches = <<>> \/ acc.error # "none" THEN acc
    ELSE M3BatchesInserted(Tail(batches), persons,
             M3Batch(Head(batches), persons, acc.coll, 0))

Dropped == [coll |-> <<>>, nextId |-> nextId, error |-> "none"]

populate_M2_optimized(comp_coll, pers_coll, batch_size) ==
    PersonWindowsInserted(Windows(pers_coll, batch_size), comp_coll, Dropped)

populate_M3_optimized(comp_coll, pers_coll, batch_size) ==
    CompanyWindowsInserted(Windows(comp_coll, batch_size),
                           GroupEmployees(pers_coll), Dropped)

populate_M2(companies, persons, batch_size) ==
    M2BatchesInserted(Windows(persons, batch_size), companies, Dropped)

populate_M3(companies, persons, batch_size) ==
    M3BatchesInserted(Windows(companies, batch_size), persons, Dropped)

\* ------------------------------------------------------------- query pipelines
\* `queries`: run_queries(db)
main_queries ==
    /\ pc = "idle" /\ queryRuns < MaxQueryRuns
    /\ pc' = "M1_Q1"
    /\ mode' = "queries"
    /\ error' = "none"
    /\ queryRuns' = queryRuns + 1
    /\ out' = Out0
    /\ locals' = Locals0
    /\ UNCHANGED <<db, nextId, runs, n_companies, n_persons, storeFaults>>

FullName(p) == <<p.first_name, p.last_name>>

\* {"$regex": " Company$"}: the name's last word is "Company" and a word
\* (hence a space) precedes it
EndsWithSuffix(name) == Len(name) >= 2 /\ name[Len(name)] = "Company"
\* the filter of Q4 in src/src/main.py: {"$not": {"$regex": " Company$"}}
Q4Matches(name) == ~EndsWithSuffix(name)
\* {"$concat": ["$name", " Company"]}
AppendSuffix(name) == Append(name, "Company")
\* (mutant) $lte in place of $lt
Q3MatchesInclusive(birth_date) == birth_date <= Q3Cutoff
\* {"birth_date": {"$lt": datetime(1988, 1, 1)}}
Q3Matches(birth_date) == birth_date < Q3Cutoff

\* modified_count: the documents an update changed
ModifiedCount(old, new) == Cardinality({k \in DOMAIN old : old[k] # new[k]})

RECURSIVE SortByEmployeesDesc(_)
\* {"$sort": {"num_employees": -1}}
SortByEmployeesDesc(rows) ==
    IF rows = <<>> THEN <<>>
    ELSE LET h == Head(rows)
             rest == SortByEmployeesDesc(Tail(rows))
         IN  SelectSeq(rest, LAMBDA r : r.num_employees > h.num_employees)
             \o <<h>>
             \o SelectSeq(rest, LAMBDA r : r.num_employees <= h.num_employees)

\* Q1 of run_queries_M1: $lookup into companies_ref, $unwind, $project
Q1_M1(pers_coll, comp_coll) ==
    Flatten([k \in DOMAIN pers_coll |->
        LET company == SelectSeq(comp_coll,
                                 LAMBDA c : c._id = pers_coll[k].company_id)
        IN  [j \in DOMAIN company |->
                [full_name |-> FullName(pers_coll[k]),
                 company_name |-> company[j].name]]])

\* Q2 of run_queries_M1: companies_ref $lookup persons_ref, $size, $sort
Q2_M1(comp_coll, pers_coll) ==
    SortByEmployeesDesc([k \in DOMAIN comp_coll |->
        [name |-> comp_coll[k].name,
         num_employees |->
            Len(SelectSeq(pers_coll, LAMBDA p : p.company_id = comp_coll[k]._id))]])

\* Q1 of run_queries_M2: $project full_name and company.name
Q1_M2(pers_coll) ==
    [k \in DOMAIN pers_coll |->
        [full_name |-> FullName(pers_coll[k]),
         company |-> [name |-> pers_coll[k].company.name]]]

\* Q2 of run_queries_M2: companies_ref $lookup persons_emb on company._id
Q2_M2(comp_coll, pers_coll) ==
    SortByEmployeesDesc([k \in DOMAIN comp_coll |->
        [name |-> comp_coll[k].name,
         num_employees |->
            Len(SelectSeq(pers_coll, LAMBDA p : p.company._id = comp_coll[k]._id))]])

\* (mutant) no $unwind: one row per company
Q1_M3_per_company(comp_coll) ==
    [k \in DOMAIN comp_coll |->
        [full_name |-> <<>>, company_name |-> comp_coll[k].name]]

\* Q1 of run_queries_M3: $unwind employees, $project
Q1_M3(comp_coll) ==
    Flatten([k \in DOMAIN comp_coll |->
        [j \in DOMAIN comp_coll[k].employees |->
            [full_name |-> FullName(comp_coll[k].employees[j]),
             company_name |-> comp_coll[k].name]]])

\* Q2 of run_queries_M3: $size of employees, $sort
Q2_M3(comp_coll) ==
    SortByEmployeesDesc([k \in DOMAIN comp_coll |->
        [name |-> comp_coll[k].name,
         num_employees |-> Len(comp_coll[k].employees)]])

\* (mutant) the update also moves the birth date onto the cutoff
Q3_PersonsRedating(pers_coll) ==
    [k \in DOMAIN pers_coll |->
        IF Q3Matches(pers_coll[k].birth_date)
        THEN [pers_coll[k] EXCEPT !.age = Q3Age, !.birth_date = Q3Cutoff]
        ELSE pers_coll[k]]

\* Q3 of run_queries_M1 / M2: update_many(birth_date < cutoff, $set age 30)
Q3_Persons(pers_coll) ==
    [k \in DOMAIN pers_coll |->
        IF Q3Matches(pers_coll[k].birth_date)
        THEN [pers_coll[k] EXCEPT !.age = Q3Age] ELSE pers_coll[k]]

\* (mutant) no array filter: every employee of a matching company is set
Q3_Employees_whole_array(comp_coll) ==
    [k \in DOMAIN comp_coll |->
        IF \E j \in DOMAIN comp_coll[k].employees :
              Q3Matches(comp_coll[k].employees[j].birth_date)
        THEN [comp_coll[k] EXCEPT !.employees =
                [j \in DOMAIN @ |-> [@[j] EXCEPT !.age = Q3Age]]]
        ELSE comp_coll[k]]

\* Q3 of run_queries_M3: employees.$[e].age with the array filter on e
Q3_Employees(comp_coll) ==
    [k \in DOMAIN comp_coll |->
        IF \E j \in DOMAIN comp_coll[k].employees :
              Q3Matches(comp_coll[k].employees[j].birth_date)
        THEN [comp_coll[k] EXCEPT !.employees =
                [j \in DOMAIN @ |->
                    IF Q3Matches(@[j].birth_date)
                    THEN [@[j] EXCEPT !.age = Q3Age] ELSE @[j]]]
        ELSE comp_coll[k]]

\* Q4 of run_queries_M1 / M3: update_many(name not ending " Company", $concat)
Q4_Companies(comp_coll) ==
    [k \in DOMAIN comp_coll |->
        IF Q4Matches(comp_coll[k].name)
        THEN [comp_coll[k] EXCEPT !.name = AppendSuffix(@)] ELSE comp_coll[k]]

\* Q4 of run_queries_M2: the same on company.name of persons_emb
Q4_Embedded(pers_coll) ==
    [k \in DOMAIN pers_coll |->
        IF Q4Matches(pers_coll[k].company.name)
        THEN [pers_coll[k] EXCEPT !.company.name = AppendSuffix(@)]
        ELSE pers_coll[k]]

\* A read of the suite: it prints len(rows); an exception ends the process.
ReadOp(op, next, rows) ==
    /\ pc = op
    /\ \E fail \in FailChoices :
          IF fail
          THEN Raise("OperationFailure") /\ UNCHANGED out
          ELSE /\ out' = [out EXCEPT ![op] = Len(rows)]
               /\ pc' = next
               /\ UNCHANGED <<error, locals>>
    /\ UNCHANGED <<db, nextId, mode, runs, queryRuns, n_companies, n_persons,
                   storeFaults>>

run_queries_M1_Q1 == ReadOp("M1_Q1", "M1_Q2", Q1_M1(persons_ref, companies_ref))
run_queries_M1_Q2 == ReadOp("M1_Q2", "M1_Q3", Q2_M1(companies_ref, persons_ref))

run_queries_M1_Q3 ==
    /\ pc = "M1_Q3"
    /\ \E fail \in FailChoices :
          IF fail
          THEN Raise("OperationFailure") /\ UNCHANGED <<persons_ref, out>>
          ELSE /\ persons_ref' = Q3_Persons(persons_ref)
               /\ out' = [out EXCEPT !["M1_Q3"] = ModifiedCount(persons_ref, persons_ref')]
               /\ pc' = "M1_Q4"
               /\ UNCHANGED <<error, locals>>
    /\ UNCHANGED <<companies_ref, persons_emb, companies_emb, temp_comp, indexes,
                   nextId, mode, runs, queryRuns, n_companies, n_persons, storeFaults>>

\* (mutant) the rename is carried over to the copies embedded in persons_emb
run_queries_M1_Q4_propagating ==
    /\ pc = "M1_Q4"
    /\ companies_ref' = Q4_Companies(companies_ref)
    /\ persons_emb' = Q4_Embedded(persons_emb)
    /\ out' = [out EXCEPT !["M1_Q4"] = ModifiedCount(companies_ref, companies_ref')]
    /\ pc' = "M2_Q1"
    /\ UNCHANGED <<persons_ref, companies_emb, temp_comp, indexes, error, locals,
                   nextId, mode, runs, queryRuns, n_companies, n_persons, storeFaults>>

run_queries_M1_Q4 ==
    /\ pc = "M1_Q4"
    /\ \E fail \in FailChoices :
          IF fail
          THEN Raise("OperationFailure") /\ UNCHANGED <<companies_ref, out>>
          ELSE /\ companies_ref' = Q4_Companies(companies_ref)
               /\ out' = [out EXCEPT !["M1_Q4"] =
                                ModifiedCount(companies_ref, companies_ref')]
               /\ pc' = "M2_Q1"
               /\ UNCHANGED <<error, locals>>
    /\ UNCHANGED <<persons_ref, persons_emb, companies_emb, temp_comp, indexes,
                   nextId, mode, runs, queryRuns, n_companies, n_persons, storeFaults>>

run_queries_M2_Q1 == ReadOp("M2_Q1", "M2_Q2", Q1_M2(persons_emb))
run_queries_M2_Q2 == ReadOp("M2_Q2", "M2_Q3", Q2_M2(companies_ref, persons_emb))

run_queries_M2_Q3 ==
    /\ pc = "M2_Q3"
    /\ \E fail \in FailChoices :
          IF fail
          THEN Raise("OperationFailure") /\ UNCHANGED <<persons_emb, out>>
          ELSE /\ persons_emb' = Q3_Persons(persons_emb)
               /\ out' = [out EXCEPT !["M2_Q3"] = ModifiedCount(persons_emb, persons_emb')]
               /\ pc' = "M2_Q4"
               /\ UNCHANGED <<error, locals>>
    /\ UNCHANGED <<companies_ref, persons_ref, companies_emb, temp_comp, indexes,
                   nextId, mode, runs, queryRuns, n_companies, n_persons, storeFaults>>

run_queries_M2_Q4 ==
    /\ pc = "M2_Q4"
    /\ \E fail \in FailChoices :
          IF fail
          THEN Raise("OperationFailure") /\ UNCHANGED <<persons_emb, out>>
          ELSE /\ persons_emb' = Q4_Embedded(persons_emb)
               /\ out' = [out EXCEPT !["M2_Q4"] = ModifiedCount(persons_emb, persons_emb')]
               /\ pc' = "M3_Q1"
               /\ UNCHANGED <<error, locals>>
    /\ UNCHANGED <<companies_ref, persons_ref, companies_emb, temp_comp, indexes,
                   nextId, mode, runs, queryRuns, n_companies, n_persons, storeFaults>>

run_queries_M3_Q1 == ReadOp("M3_Q1", "M3_Q2", Q1_M3(companies_emb))
run_queries_M3_Q2 == ReadOp("M3_Q2", "M3_Q3", Q2_M3(companies_emb))

run_queries_M3_Q3 ==
    /\ pc = "M3_Q3"
    /\ \E fail \in FailChoices :
          IF fail
          THEN Raise("OperationFailure") /\ UNCHANGED <<companies_emb, out>>
          ELSE /\ companies_emb' = Q3_Employees(companies_emb)
               /\ out' = [out EXCEPT !["M3_Q3"] =
                                ModifiedCount(companies_emb, companies_emb')]
               /\ pc' = "M3_Q4"
               /\ UNCHANGED <<error, locals>>
    /\ UNCHANGED <<companies_ref, persons_ref, persons_emb, temp_comp, indexes,
                   nextId, mode, runs, queryRuns, n_companies, n_persons, storeFaults>>

run_queries_M3_Q4 ==
    /\ pc = "M3_Q4"
    /\ \E fail \in FailChoices :
          IF fail
          THEN Raise("OperationFailure") /\ UNCHANGED <<companies_emb, out>>
          ELSE /\ companies_emb' = Q4_Companies(companies_emb)
               /\ out' = [out EXCEPT !["M3_Q4"] =
                                ModifiedCount(companies_emb, companies_emb')]
               /\ Return
    /\ UNCHANGED <<companies_ref, persons_ref, persons_emb, temp_comp, indexes,
                   nextId, mode, runs, queryRuns, n_companies, n_persons, storeFaults>>

\* ------------------------------------------------- the loaders called directly
\* generate_and_populate_companies_batched(db, fake, total, batch_size)
unit_call_companies ==
    /\ pc = "idle" /\ mode = "none"
    /\ \E total \in 0..MaxCompanies, batch_size \in 1..MaxBatch :
          /\ n_companies' = total
          /\ locals' = [Locals0 EXCEPT !.total = total, !.batch_size = batch_size]
    /\ mode' = "unit_companies"
    /\ pc' = "gapc_begin"
    /\ UNCHANGED <<db, nextId, error, runs, queryRuns, n_persons, out, storeFaults>>

\* generate_and_populate_persons_batched(db, fake, total, company_ids,
\* batch_size) with the list the company loader returned
unit_call_persons ==
    /\ pc = "idle" /\ mode = "unit_companies"
    /\ \E total \in 0..MaxPersons, batch_size \in 1..MaxBatch :
          /\ n_persons' = total
          /\ locals' = [locals EXCEPT !.total = total, !.batch_size = batch_size]
    /\ mode' = "unit_persons"
    /\ pc' = "gapp_begin"
    /\ UNCHANGED <<db, nextId, error, runs, queryRuns, n_companies, out, storeFaults>>

\* populate_M1(db, companies, persons, batch_size) with pre-generated lists,
\* the companies with _id attached
unit_call_M1 ==
    /\ pc = "idle" /\ mode = "none"
    /\ \E nc \in 0..MaxCompanies, np \in 0..MaxPersons, batch_size \in 1..MaxBatch :
       \E generated \in GenerateCompanies(nc) :
          LET companies == WithIds(generated, nextId)
              comp_ids == [k \in DOMAIN companies |-> companies[k]._id]
          IN  \E persons \in generate_persons(np, comp_ids) :
                 /\ n_companies' = nc
                 /\ n_persons' = np
                 /\ nextId' = nextId + nc
                 /\ locals' = [Locals0 EXCEPT !.companies = companies,
                                              !.persons = persons,
                                              !.batch_size = batch_size]
    /\ mode' = "unit_M1"
    /\ pc' = "M1_begin"
    /\ UNCHANGED <<db, error, runs, queryRuns, out, storeFaults>>

\* ------------------------------------------------ the script src/main.py
\* Collection.insert_many raises TypeError("documents must be a non-empty
\* list") on an empty list; the script builds everything in one batch.

\* `populate`, up to the call of populate_M1: the companies get their ids from
\* a round trip through __temp_comp
basic_main_populate ==
    /\ pc = "idle" /\ runs = 0
    /\ mode' = "populate"
    /\ runs' = runs + 1
    /\ queryRuns' = 0
    /\ indexes' = [indexes EXCEPT !["__temp_comp"] = {}]
    /\ temp_comp' = <<>>
    /\ \E nc \in 0..MaxCompanies, np \in 0..MaxPersons :
          /\ n_companies' = nc
          /\ n_persons' = np
          /\ IF nc = 0
             THEN Raise("TypeError") /\ UNCHANGED nextId
             ELSE \E generated \in GenerateCompanies(nc) :
                     LET result == insert_many(<<>>, generated, TRUE, 0)
                     IN  \E persons \in generate_persons(np, result.inserted_ids) :
                            /\ locals' = [Locals0 EXCEPT !.companies = result.docs,
                                                         !.comp_ids = result.inserted_ids,
                                                         !.persons = persons]
                            /\ nextId' = result.nextId
                            /\ pc' = "basic_M1"
                            /\ error' = "none"
    /\ UNCHANGED <<companies_ref, persons_ref, persons_emb, companies_emb, out,
                   storeFaults>>

\* populate_M1(db, companies, persons) of src/main.py
basic_populate_M1 ==
    /\ pc = "basic_M1"
    /\ indexes' = [indexes EXCEPT !["companies_ref"] = {}, !["persons_ref"] = {}]
    /\ companies_ref' = insert_many(<<>>, locals.companies, TRUE, 0).coll
    /\ IF locals.persons = <<>>
       THEN /\ persons_ref' = <<>>
            /\ Raise("TypeError")
            /\ UNCHANGED nextId
       ELSE LET result == insert_many(<<>>, locals.persons, TRUE, 0)
            IN  /\ persons_ref' = result.coll
                /\ nextId' = result.nextId
                /\ locals' = [locals EXCEPT !.persons = result.docs]
                /\ pc' = "basic_M2"
                /\ UNCHANGED error
    /\ UNCHANGED <<persons_emb, companies_emb, temp_comp, mode, runs, queryRuns,
                   n_companies, n_persons, out, storeFaults>>

\* populate_M2(db, companies, persons) of src/main.py
basic_populate_M2 ==
    /\ pc = "basic_M2"
    /\ indexes' = [indexes EXCEPT !["persons_emb"] = {}]
    /\ LET docs == [k \in DOMAIN locals.persons |->
                      EmbedPerson(locals.persons[k],
                                  FirstWithId(locals.companies,
                                              locals.persons[k].company_id))]
           result == insert_many(<<>>, docs, TRUE, 0)
       IN  /\ persons_emb' = result.coll
           /\ nextId' = result.nextId
    /\ pc' = "basic_M3"
    /\ UNCHANGED <<companies_ref, persons_ref, companies_emb, temp_comp, mode, error,
                   locals, runs, queryRuns, n_companies, n_persons, out, storeFaults>>

\* the company document of src/main.py's populate_M3: no founded date
EmbedCompanyBasic(c, employees) ==
    [_id |-> NoId, name |-> c.name, address |-> c.address, employees |-> employees]

\* populate_M3(db, companies, persons) of src/main.py
basic_populate_M3 ==
    /\ pc = "basic_M3"
    /\ indexes' = [indexes EXCEPT !["companies_emb"] = {}]
    /\ LET docs == [k \in DOMAIN locals.companies |->
                      EmbedCompanyBasic(locals.companies[k],
                          EmployeesOf(locals.persons, locals.companies[k]._id))]
           result == insert_many(<<>>, docs, TRUE, 0)
       IN  /\ companies_emb' = result.coll
           /\ nextId' = result.nextId
    /\ Return
    /\ UNCHANGED <<companies_ref, persons_ref, persons_emb, temp_comp, mode,
                   runs, queryRuns, n_companies, n_persons, out, storeFaults>>

\* Q2 of src/main.py's run_queries_M1: $lookup and $size, no $sort
basic_Q2_M1(comp_coll, pers_coll) ==
    [k \in DOMAIN comp_coll |->
        [name |-> comp_coll[k].name,
         num_employees |->
            Len(SelectSeq(pers_coll, LAMBDA p : p.company_id = comp_coll[k]._id))]]

\* Q2 of src/main.py's run_queries_M2: $group of persons_emb by company._id,
\* $first of company.name, $sum 1
basic_Q2_M2(pers_coll) ==
    Flatten([k \in DOMAIN pers_coll |->
        IF \E j \in 1..(k - 1) : pers_coll[j].company._id = pers_coll[k].company._id
        THEN <<>>
        ELSE << [name |-> pers_coll[k].company.name,
                 num_employees |->
                    Len(SelectSeq(pers_coll,
                        LAMBDA p : p.company._id = pers_coll[k].company._id))] >>])

\* Q2 of src/main.py's run_queries_M3: $size of employees, no $sort
basic_Q2_M3(comp_coll) ==
    [k \in DOMAIN comp_coll |->
        [name |-> comp_coll[k].name, num_employees |-> Len(comp_coll[k].employees)]]

\* Q4 of src/main.py's run_queries_M1 / M3: update_many({}, [$set $concat])
basic_Q4_Companies(comp_coll) ==
    [k \in DOMAIN comp_coll |-> [comp_coll[k] EXCEPT !.name = AppendSuffix(@)]]

\* Q4 of src/main.py's run_queries_M2 is a plain (non-pipeline) $set whose value
\* is the document {"$concat": [...]}: it is never evaluated. The server either
\* refuses the $-prefixed field name or stores the document as the name.
ConcatDocument == <<"{$concat: [$company.name,  Company]}">>
basic_Q4_Outcomes == {"WriteError", "stored"}
basic_Q4_Embedded(pers_coll) ==
    [k \in DOMAIN pers_coll |-> [pers_coll[k] EXCEPT !.company.name = ConcatDocument]]

basic_run_queries_M1_Q2 ==
    ReadOp("M1_Q2", "M1_Q3", basic_Q2_M1(companies_ref, persons_ref))
basic_run_queries_M2_Q2 == ReadOp("M2_Q2", "M2_Q3", basic_Q2_M2(persons_emb))
basic_run_queries_M3_Q2 == ReadOp("M3_Q2", "M3_Q3", basic_Q2_M3(companies_emb))

basic_run_queries_M1_Q4 ==
    /\ pc = "M1_Q4"
    /\ companies_ref' = basic_Q4_Companies(companies_ref)
    /\ out' = [out EXCEPT !["M1_Q4"] = ModifiedCount(companies_ref, companies_ref')]
    /\ pc' = "M2_Q1"
    /\ UNCHANGED <<persons_ref, persons_emb, companies_emb, temp_comp, indexes,
                   error, locals, nextId, mode, runs, queryRuns, n_companies,
                   n_persons, storeFaults>>

basic_run_queries_M2_Q4 ==
    /\ pc = "M2_Q4"
    /\ \E outcome \in basic_Q4_Outcomes :
          IF outcome = "WriteError" /\ persons_emb # <<>>
          THEN Raise("WriteError") /\ UNCHANGED <<persons_emb, out>>
          ELSE /\ persons_emb' = basic_Q4_Embedded(persons_emb)
               /\ out' = [out EXCEPT !["M2_Q4"] =
                                ModifiedCount(persons_emb, persons_emb')]
               /\ pc' = "M3_Q1"
               /\ UNCHANGED <<error, locals>>
    /\ UNCHANGED <<companies_ref, persons_ref, companies_emb, temp_comp, indexes,
                   nextId, mode, runs, queryRuns, n_companies, n_persons, storeFaults>>

basic_run_queries_M3_Q4 ==
    /\ pc = "M3_Q4"
    /\ companies_emb' = basic_Q4_Companies(companies_emb)
    /\ out' = [out EXCEPT !["M3_Q4"] = ModifiedCount(companies_emb, companies_emb')]
    /\ Return
    /\ UNCHANGED <<companies_ref, persons_ref, persons_emb, temp_comp, indexes,
                   nextId, mode, runs, queryRuns, n_companies, n_persons, storeFaults>>

\* --------------------------------------- the builders called directly
\* an identifier that no document of companies_ref carries
ForeignIds == {-1}

\* generate_and_populate_persons_batched with a company_ids list that names,
\* besides the companies loaded, a company that is not in companies_ref
unit_call_persons_foreign ==
    /\ pc = "idle" /\ mode = "unit_companies"
    /\ \E total \in 1..MaxPersons, batch_size \in 1..MaxBatch, foreign \in ForeignIds :
          /\ n_persons' = total
          /\ locals' = [locals EXCEPT !.total = total, !.batch_size = batch_size,
                                      !.company_ids = Append(@, foreign)]
    /\ mode' = "unit_persons_foreign"
    /\ pc' = "gapp_begin"
    /\ UNCHANGED <<db, nextId, error, runs, queryRuns, n_companies, out, storeFaults>>

\* populate_M2_optimized(db, batch_size)
unit_call_M2_optimized ==
    /\ pc = "idle" /\ mode = "unit_persons_foreign"
    /\ \E batch_size \in 1..MaxBatch :
          locals' = [Locals0 EXCEPT !.batch_size = batch_size]
    /\ mode' = "unit_M2_optimized"
    /\ pc' = "m2o_begin"
    /\ UNCHANGED <<db, nextId, error, runs, queryRuns, n_companies, n_persons, out,
                   storeFaults>>

\* populate_M3_optimized(db, batch_size)
unit_call_M3_optimized ==
    /\ pc = "idle" /\ mode = "unit_persons_foreign"
    /\ \E batch_size \in 1..MaxBatch :
          locals' = [Locals0 EXCEPT !.batch_size = batch_size]
    /\ mode' = "unit_M3_optimized"
    /\ pc' = "m3o_begin"
    /\ UNCHANGED <<db, nextId, error, runs, queryRuns, n_companies, n_persons, out,
                   storeFaults>>

\* populate_M2(db, companies, persons, batch_size) on the lists read back from
\* companies_ref and persons_ref
unit_call_M2 ==
    /\ pc = "idle" /\ mode = "unit_persons_foreign"
    /\ \E batch_size \in 1..MaxBatch :
          locals' = [Locals0 EXCEPT !.companies = companies_ref,
                                    !.persons = persons_ref,
                                    !.batch_size = batch_size]
    /\ mode' = "unit_M2"
    /\ pc' = "M2_begin"
    /\ UNCHANGED <<db, nextId, error, runs, queryRuns, n_companies, n_persons, out,
                   storeFaults>>

\* populate_M3(db, companies, persons, batch_size) on the same lists
unit_call_M3 ==
    /\ pc = "idle" /\ mode = "unit_persons_foreign"
    /\ \E batch_size \in 1..MaxBatch :
          locals' = [Locals0 EXCEPT !.companies = companies_ref,
                                    !.persons = persons_ref,
                                    !.batch_size = batch_size]
    /\ mode' = "unit_M3"
    /\ pc' = "M3_begin"
    /\ UNCHANGED <<db, nextId, error, runs, queryRuns, n_companies, n_persons, out,
                   storeFaults>>

\* ------------------------------------------------ populate after populate
\* The populate process is terminated from outside (signal, lost connection)
\* between two of its steps; the collections stay as the steps left them.
terminate_populate ==
    /\ mode = "populate" /\ pc # "idle" /\ runs = 1
    /\ Raise("Terminated")
    /\ UNCHANGED <<db, nextId, mode, runs, queryRuns, n_companies, n_persons, out,
                   storeFaults>>

\* `populate --n_companies nc --n_persons np` once more, on the database an
\* earlier populate process (ended, failed or terminated) left behind
main_populate_again ==
    /\ pc = "idle" /\ mode = "populate" /\ runs = 1
    /\ \E nc \in 0..MaxCompanies, np \in 0..MaxPersons :
          /\ n_companies' = nc
          /\ n_persons' = np
    /\ pc' = "populate_data"
    /\ error' = "none"
    /\ runs' = runs + 1
    /\ queryRuns' = 0
    /\ locals' = Locals0
    /\ UNCHANGED <<db, nextId, mode, out, storeFaults>>

\* ------------------------------------------------------------- specifications
Populate ==
    \/ main_populate \/ populate_data
    \/ gapc_begin \/ gapc_loop \/ gapp_begin \/ gapp_loop
    \/ m2o_begin \/ m2o_loop \/ m3o_begin \/ m3o_loop
    \/ std_companies \/ std_persons
    \/ M1_begin \/ M1_companies \/ M1_persons
    \/ M2_begin \/ M2_loop \/ M3_begin \/ M3_loop

Queries ==
    \/ main_queries
    \/ run_queries_M1_Q1 \/ run_queries_M1_Q2 \/ run_queries_M1_Q3 \/ run_queries_M1_Q4
    \/ run_queries_M2_Q1 \/ run_queries_M2_Q2 \/ run_queries_M2_Q3 \/ run_queries_M2_Q4
    \/ run_queries_M3_Q1 \/ run_queries_M3_Q2 \/ run_queries_M3_Q3 \/ run_queries_M3_Q4

Next == Populate \/ Queries

\* src/src/main.py against a store that accepts every record and call
Spec == Init /\ [][Next]_vars

\* src/src/main.py against a store that may reject a record of a bulk insert
\* or fail a query or update
InitFaults == InitWith(TRUE)
SpecFaults == InitFaults /\ [][Next]_vars

\* the three chunked loaders of src/src/main.py called with any batch_size
NextUnit ==
    \/ unit_call_companies \/ unit_call_persons \/ unit_call_M1
    \/ gapc_begin \/ gapc_loop \/ gapp_begin \/ gapp_loop
    \/ M1_begin \/ M1_companies \/ M1_persons
SpecUnit == Init /\ [][NextUnit]_vars

\* the script src/main.py: populate once, `queries` any number of times
NextBasic ==
    \/ basic_main_populate
    \/ basic_populate_M1 \/ basic_populate_M2 \/ basic_populate_M3
    \/ main_queries
    \/ run_queries_M1_Q1 \/ basic_run_queries_M1_Q2
    \/ run_queries_M1_Q3 \/ basic_run_queries_M1_Q4
    \/ run_queries_M2_Q1 \/ basic_run_queries_M2_Q2
    \/ run_queries_M2_Q3 \/ basic_run_queries_M2_Q4
    \/ run_queries_M3_Q1 \/ basic_run_queries_M3_Q2
    \/ run_queries_M3_Q3 \/ basic_run_queries_M3_Q4
SpecBasic == Init /\ [][NextBasic]_vars

\* src/src/main.py: populate twice, the first process possibly terminated
NextRerun == Populate \/ terminate_populate \/ main_populate_again
SpecRerun == Init /\ [][NextRerun]_vars

\* the four denormalizing builders of src/src/main.py called directly on a
\* Model R in which a person may reference a company that is not there
NextDangling ==
    \/ unit_call_companies \/ gapc_begin \/ gapc_loop
    \/ unit_call_persons_foreign \/ gapp_begin \/ gapp_loop
    \/ unit_call_M2_optimized \/ m2o_begin \/ m2o_loop
    \/ unit_call_M3_optimized \/ m3o_begin \/ m3o_loop
    \/ unit_call_M2 \/ M2_begin \/ M2_loop
    \/ unit_call_M3 \/ M3_begin \/ M3_loop
SpecDangling == Init /\ [][NextDangling]_vars

\* ------------------------------------------------ the two age computations
\* date.toordinal() of the proleptic Gregorian calendar, counted from
\* 1970-01-01, for years of the common era: the subtraction of two dates
\* gives the difference of their day numbers
DaysFromCivil(y, m, d) ==
    LET yy  == IF m <= 2 THEN y - 1 ELSE y
        era == yy \div 400
        yoe == yy - era * 400
        mp  == IF m > 2 THEN m - 3 ELSE m + 9
        doy == (153 * mp + 2) \div 5 + d - 1
        doe == yoe * 365 + yoe \div 4 - yoe \div 100 + doy
    IN  era * 146097 + doe - 719468

MinimumAge == 18
MaximumAge == 80

\* fake.date_of_birth(minimum_age=18, maximum_age=80) on 2026-11-03: the
\* dates of those who are 18 at least and not yet 81 today
DateOfBirth ==
    (DaysFromCivil(2026 - (MaximumAge + 1), 11, 3) + 1)
        .. DaysFromCivil(2026 - MinimumAge, 11, 3)

\* generate_persons(fake, 1, company_ids) with any date of birth drawn
unit_call_generate_persons ==
    /\ pc = "idle" /\ mode = "none"
    /\ \E bd \in DateOfBirth, first \in FirstNames, last \in LastNames :
          locals' = [locals EXCEPT !.persons =
                        <<NewPerson(first, last, bd, AgeStandard(bd), NoId)>>]
    /\ mode' = "unit_generate_persons"
    /\ UNCHANGED <<db, nextId, pc, error, runs, queryRuns, n_companies, n_persons,
                   out, storeFaults>>

\* one person_batch document of generate_and_populate_persons_batched with
\* any date of birth drawn
unit_call_person_batch ==
    /\ pc = "idle" /\ mode = "none"
    /\ \E bd \in DateOfBirth, first \in FirstNames, last \in LastNames :
          locals' = [locals EXCEPT !.persons =
                        <<NewPerson(first, last, bd, AgeBatched(bd), NoId)>>]
    /\ mode' = "unit_person_batch"
    /\ UNCHANGED <<db, nextId, pc, error, runs, queryRuns, n_companies, n_persons,
                   out, storeFaults>>

NextAges == unit_call_generate_persons \/ unit_call_person_batch
SpecAges == Init /\ [][NextAges]_vars

\* --------------------------------------- the dispatcher's sizes, unscaled
\* The thresholds and batch sizes of populate_data as the source has them.
SourceSizes ==
    [ company_threshold |-> 10000,
      person_threshold  |-> 100000,
      stream_cap        |-> 50000,
      company_div       |-> 100,
      person_div        |-> 1000,
      m2_window         |-> 25000,
      m3_window         |-> 2500,
      temp_cap          |-> 10000,
      gen_person_cap    |-> 50000,
      insert_small      |-> 50000,
      insert_large      |-> 100000,
      m3_cap            |-> 5000,
      m3_div            |-> 10 ]

\* Every batch_size populate_data hands to a loader or builder for
\* (nc, np), under the sizes S; len(companies) is nc on the standard path.
populate_data_sizes(S, nc, np) ==
    IF nc > S.company_threshold \/ np > S.person_threshold
    THEN [ path      |-> "optimized",
           companies |-> Min(S.stream_cap, Max(1, nc \div S.company_div)),
           persons   |-> Min(S.stream_cap, Max(1, np \div S.person_div)),
           M2        |-> S.m2_window,
           M3        |-> S.m3_window ]
    ELSE [ path      |-> "standard",
           temp      |-> Min(S.temp_cap, nc),
           generated |-> Min(S.gen_person_cap, np),
           companies |-> IF np > S.person_threshold
                         THEN S.insert_small ELSE S.insert_large,
           persons   |-> IF np > S.person_threshold
                         THEN S.insert_small ELSE S.insert_large,
           M2        |-> IF np > S.person_threshold
                         THEN S.insert_small ELSE S.insert_large,
           M3        |-> Min(S.m3_cap, Max(1, nc \div S.m3_div)) ]

\* --n_companies / --n_persons around every threshold, divisor and cap
CompanyCounts ==
    {1, 9, 10, 19, 99, 100, 199, 9999, 10000, 10001, 49990, 50000, 50010,
     4999999, 5000000, 5000100}
PersonCounts ==
    {1, 999, 1000, 1999, 49999, 50000, 99999, 100000, 100001, 2499999,
     2500000, 2500999, 2501000, 49999999, 50000000, 50001000}

\* populate_data(db, fake, nc, np) on the optimized path, up to its choice of
\* the four batch sizes
unit_call_populate_data_optimized ==
    /\ pc = "idle" /\ mode = "none"
    /\ \E nc \in CompanyCounts, np \in PersonCounts :
          /\ populate_data_sizes(SourceSizes, nc, np).path = "optimized"
          /\ n_companies' = nc
          /\ n_persons' = np
          /\ locals' = populate_data_sizes(SourceSizes, nc, np)
    /\ mode' = "unit_sizes"
    /\ UNCHANGED <<db, nextId, pc, error, runs, queryRuns, out, storeFaults>>

\* the same on the standard path
unit_call_populate_data_standard ==
    /\ pc = "idle" /\ mode = "none"
    /\ \E nc \in CompanyCounts, np \in PersonCounts :
          /\ populate_data_sizes(SourceSizes, nc, np).path = "standard"
          /\ n_companies' = nc
          /\ n_persons' = np
          /\ locals' = populate_data_sizes(SourceSizes, nc, np)
    /\ mode' = "unit_sizes"
    /\ UNCHANGED <<db, nextId, pc, error, runs, queryRuns, out, storeFaults>>

NextSizes == unit_call_populate_data_optimized \/ unit_call_populate_data_standard
SpecSizes == Init /\ [][NextSizes]_vars

\* ====================================================================== claims
\* The populate process has exited (normally or not) and no query process
\* has run since.
PopulateEnded == mode = "populate" /\ pc = "idle"
PopulateDone == PopulateEnded /\ error = "none"

CountRef(cid) == Len(SelectSeq(persons_ref, LAMBDA p : p.company_id = cid))
CountEmb(cid) == Len(SelectSeq(persons_emb, LAMBDA p : p.company._id = cid))

\* C1: for every declared person count N >= 0 (at least one company
\* declared), the populate run completes and leaves exactly N documents in
\* persons_ref and in persons_emb.
C1_PopulateLeavesN ==
    (PopulateEnded /\ n_companies >= 1) =>
        /\ error = "none"
        /\ Len(persons_ref) = n_persons
        /\ Len(persons_emb) = n_persons

\* C2: after a completed populate run and before any benchmark run, for
\* every company C (the k-th inserted) the persons_ref documents with
\* company_id C, the persons_emb documents with company._id C and the
\* employees of C's document in companies_emb (the k-th) are equally many.
C2_PerCompanyCounts ==
    PopulateDone =>
        /\ Len(companies_emb) = Len(companies_ref)
        /\ \A k \in DOMAIN companies_ref :
              /\ CountRef(companies_ref[k]._id) = CountEmb(companies_ref[k]._id)
              /\ CountRef(companies_ref[k]._id) = Len(companies_emb[k].employees)
              /\ companies_emb[k].name = companies_ref[k].name

C2_Witness ==
    /\ PopulateDone /\ UseOptimized(n_companies, n_persons)
    /\ Len(companies_ref) = 2
    /\ CountRef(companies_ref[1]._id) = 0
    /\ CountRef(companies_ref[2]._id) = 3
    /\ Len(companies_emb[2].employees) = 3

ZeroRows(rows) == Cardinality({k \in DOMAIN rows : rows[k].num_employees = 0})
Employers == {persons_ref[k].company_id : k \in DOMAIN persons_ref}

\* C3: after a populate run of nc >= 1 companies, Q2 returns nc rows in each
\* of the three models, and the companies without employees are among them
\* with num_employees = 0; with 0 persons every one of the nc rows has count 0.
C3_Q2ZeroEmployeeRows ==
    (PopulateEnded /\ n_companies >= 1) =>
        \A rows \in {Q2_M1(companies_ref, persons_ref),
                     Q2_M2(companies_ref, persons_emb),
                     Q2_M3(companies_emb)} :
            /\ Len(rows) = n_companies
            /\ ZeroRows(rows) = n_companies - Cardinality(Employers)

\* C4: after a populate of at least one company and one person, running the
\* benchmark again leaves every company name as the first run left it: no
\* name carries the suffix " Company" twice, and from the second run on Q4
\* reports 0 modified documents in every model.
Q4Ops == {"M1_Q4", "M2_Q4", "M3_Q4"}
SuffixedTwice(name) ==
    Len(name) >= 3 /\ name[Len(name)] = "Company" /\ name[Len(name) - 1] = "Company"

C4_Q4Idempotent ==
    (runs = 1 /\ n_companies >= 1 /\ n_persons >= 1) =>
        /\ \A k \in DOMAIN companies_ref : ~SuffixedTwice(companies_ref[k].name)
        /\ \A k \in DOMAIN persons_emb : ~SuffixedTwice(persons_emb[k].company.name)
        /\ \A k \in DOMAIN companies_emb : ~SuffixedTwice(companies_emb[k].name)
        /\ queryRuns >= 2 => \A op \in Q4Ops : out[op] \in {NotReported, 0}

\* C5: Q3 uses an exclusive cutoff in every model: across a Q3 step a person
\* (or embedded employee) born exactly on 1988-01-01 keeps its age, one born
\* on 1987-12-31 or earlier has age 30 afterwards.
Q3Boundary(before, after) ==
    /\ before.birth_date = Q3Cutoff => after.age = before.age
    /\ before.birth_date <= Q3Cutoff - 1 => after.age = 30
    /\ after.birth_date = before.birth_date

C5_Q3ExclusiveCutoff ==
    [][ /\ (pc = "M1_Q3" /\ pc' = "M1_Q4") =>
              /\ Len(persons_ref') = Len(persons_ref)
              /\ \A k \in DOMAIN persons_ref : Q3Boundary(persons_ref[k], persons_ref'[k])
        /\ (pc = "M2_Q3" /\ pc' = "M2_Q4") =>
              /\ Len(persons_emb') = Len(persons_emb)
              /\ \A k \in DOMAIN persons_emb : Q3Boundary(persons_emb[k], persons_emb'[k])
        /\ (pc = "M3_Q3" /\ pc' = "M3_Q4") =>
              /\ Len(companies_emb') = Len(companies_emb)
              /\ \A k \in DOMAIN companies_emb :
                    /\ Len(companies_emb'[k].employees) = Len(companies_emb[k].employees)
                    /\ \A j \in DOMAIN companies_emb[k].employees :
                          Q3Boundary(companies_emb[k].employees[j],
                                     companies_emb'[k].employees[j])
      ]_vars

HasAged(docs, bd, age) ==
    \E k \in DOMAIN docs : docs[k].birth_date = bd /\ docs[k].age = age

C5_Witness ==
    /\ pc = "M3_Q4" /\ queryRuns = 1
    /\ HasAged(persons_ref, Q3Cutoff, 38) /\ HasAged(persons_ref, Q3Cutoff - 1, 30)
    /\ HasAged(persons_emb, Q3Cutoff, 38) /\ HasAged(persons_emb, Q3Cutoff - 1, 30)
    /\ \E c \in DOMAIN companies_emb :
          /\ HasAged(companies_emb[c].employees, Q3Cutoff, 38)
          /\ HasAged(companies_emb[c].employees, Q3Cutoff - 1, 30)

\* C6: given the companies and persons of Model R, the streaming builders and
\* the in-memory builders leave equally many documents in persons_emb, equally
\* many in companies_emb, and equally many employees in every company; the
\* collections the populate run built have these counts.
SameCounts(pers_a, comp_a, pers_b, comp_b) ==
    /\ Len(pers_a) = Len(pers_b)
    /\ Len(comp_a) = Len(comp_b)
    /\ \A k \in DOMAIN comp_a : Len(comp_a[k].employees) = Len(comp_b[k].employees)

C6_StrategiesAgree ==
    pc = "idle" =>
        LET sp == populate_M2_optimized(companies_ref, persons_ref, Sizes.m2_window)
            sc == populate_M3_optimized(companies_ref, persons_ref, Sizes.m3_window)
            mp == populate_M2(companies_ref, persons_ref,
                              BatchSizeInsert(Len(persons_ref)))
            mc == populate_M3(companies_ref, persons_ref,
                              M3BatchSize(Len(companies_ref)))
        IN  /\ sp.error = "none" /\ sc.error = "none"
            /\ mp.error = "none" /\ mc.error = "none"
            /\ SameCounts(sp.coll, sc.coll, mp.coll, mc.coll)
            /\ PopulateDone =>
                  /\ SameCounts(persons_emb, companies_emb, sp.coll, sc.coll)
                  /\ SameCounts(persons_emb, companies_emb, mp.coll, mc.coll)

C6_Witness ==
    /\ PopulateDone /\ ~UseOptimized(n_companies, n_persons)
    /\ Len(companies_ref) = 2 /\ Len(persons_ref) = 2
    /\ Len(companies_emb) = 2 /\ Len(persons_emb) = 2
    /\ Len(companies_emb[1].employees) = 2
    /\ Len(companies_emb[2].employees) = 0
    /\ Len(populate_M3_optimized(companies_ref, persons_ref,
                                 Sizes.m3_window).coll[2].employees) = 0

\* C7: whatever the total T and the chunk size B >= 1 (B < T included), each
\* chunked loader inserts every chunk but the last with B records and the last
\* with the T - B * (earlier chunks) records that remain, T records in all,
\* none twice and none left out.
ChunkOf(before, after, total, batch_size) ==
    /\ Len(before) % batch_size = 0
    /\ Len(before) < total
    /\ Len(after) = Len(before) + Min(batch_size, total - Len(before))
    /\ SubSeq(after, 1, Len(before)) = before

DistinctIds(coll) ==
    \A j, k \in DOMAIN coll : j # k => coll[j]._id # coll[k]._id

C7_ChunkingPreservesCount ==
    /\ [][ /\ (pc = "gapc_loop" /\ pc' = "gapc_loop") =>
                 ChunkOf(companies_ref, companies_ref', locals.total, locals.batch_size)
           /\ (pc = "gapp_loop" /\ pc' = "gapp_loop") =>
                 ChunkOf(persons_ref, persons_ref', locals.total, locals.batch_size)
           /\ (pc = "M1_companies" /\ pc' = "M1_companies") =>
                 ChunkOf(companies_ref, companies_ref', Len(locals.companies),
                         locals.batch_size)
           /\ (pc = "M1_persons" /\ pc' = "M1_persons") =>
                 ChunkOf(persons_ref, persons_ref', Len(locals.persons),
                         locals.batch_size)
           /\ (pc = "gapc_loop" /\ pc' # "gapc_loop") =>
                 Len(companies_ref) = locals.total /\ DistinctIds(companies_ref)
           /\ (pc = "gapp_loop" /\ pc' # "gapp_loop" /\ error' = "none") =>
                 Len(persons_ref) = locals.total /\ DistinctIds(persons_ref)
           /\ (pc = "M1_companies" /\ pc' # "M1_companies") =>
                 companies_ref = locals.companies
           /\ (pc = "M1_persons" /\ pc' # "M1_persons") =>
                 persons_ref = locals.persons /\ DistinctIds(persons_ref)
         ]_vars
    /\ [](pc = "idle" /\ mode \in {"unit_companies", "unit_persons", "unit_M1"} =>
             Len(companies_ref) = n_companies)
    /\ [](pc = "idle" /\ mode \in {"unit_persons", "unit_M1"}
             /\ error # "ValueError" => Len(persons_ref) = n_persons)

C7_Witness ==
    /\ mode = "unit_M1" /\ pc = "M1_persons"
    /\ locals.batch_size = 2 /\ Len(locals.persons) = 3 /\ Len(locals.companies) = 2
    /\ locals.i = 4
    /\ Len(persons_ref) = 3 /\ Len(companies_ref) = 2

\* C8: a record of a chunk that the store rejects during a bulk insert does
\* not abort the populate run: no populate process ends with the insert's
\* BulkWriteError.
C8_RejectionDoesNotAbort ==
    ~(mode = "populate" /\ pc = "idle" /\ error = "BulkWriteError")

\* C9: a failing benchmark operation does not abort the suite: when a query
\* process has ended, each of the twelve operations has been executed and
\* reported (a failed bulk write with modified count 0).
C9_FailureDoesNotAbortSuite ==
    (mode = "queries" /\ pc = "idle") =>
        \A op \in QueryOps : out[op] # NotReported

\* C10: the writes of one model's benchmark touch only that model's
\* collections.
C10_WritesStayInModel ==
    [][ /\ pc \in {"M1_Q3", "M1_Q4"} =>
              /\ persons_emb' = persons_emb
              /\ companies_emb' = companies_emb
        /\ pc \in {"M2_Q3", "M2_Q4"} =>
              /\ companies_ref' = companies_ref
              /\ persons_ref' = persons_ref
              /\ companies_emb' = companies_emb
        /\ pc \in {"M3_Q3", "M3_Q4"} =>
              /\ companies_ref' = companies_ref
              /\ persons_ref' = persons_ref
              /\ persons_emb' = persons_emb
      ]_vars

C10_Witness ==
    /\ pc = "M2_Q1" /\ queryRuns = 1
    /\ out["M1_Q3"] >= 1 /\ out["M1_Q4"] >= 1
    /\ \E k \in DOMAIN companies_ref : EndsWithSuffix(companies_ref[k].name)
    /\ \E k \in DOMAIN persons_emb :
          /\ ~EndsWithSuffix(persons_emb[k].company.name)
          /\ persons_emb[k].birth_date < Q3Cutoff /\ persons_emb[k].age # 30
    /\ \E k \in DOMAIN companies_emb : ~EndsWithSuffix(companies_emb[k].name)

\* C11: when a populate run has completed, on a database an earlier run
\* (complete, failed or terminated between two inserts) left behind, each of
\* companies_ref, persons_ref, persons_emb and companies_emb holds the
\* documents this run generated and nothing else: as many as declared, every
\* _id and every company reference among the identifiers this run assigned.
RunIds == (nextId - 2 * (n_companies + n_persons)) .. (nextId - 1)

C11_PopulateRebuilds ==
    PopulateDone =>
        /\ Len(companies_ref) = n_companies /\ Len(companies_emb) = n_companies
        /\ Len(persons_ref) = n_persons /\ Len(persons_emb) = n_persons
        /\ \A k \in DOMAIN companies_ref : companies_ref[k]._id \in RunIds
        /\ \A k \in DOMAIN companies_emb : companies_emb[k]._id \in RunIds
        /\ \A k \in DOMAIN persons_ref :
              persons_ref[k]._id \in RunIds /\ persons_ref[k].company_id \in RunIds
        /\ \A k \in DOMAIN persons_emb :
              persons_emb[k]._id \in RunIds /\ persons_emb[k].company._id \in RunIds

\* the second run completed on what a terminated first run left: the first
\* run had assigned three identifiers, which no run that ends by itself does
C11_Witness ==
    /\ PopulateDone /\ runs = 2
    /\ n_companies = 1 /\ n_persons = 1
    /\ nextId = 8
    /\ Len(persons_emb) = 1 /\ Len(companies_emb) = 1

\* C12: no step of the benchmark suite changes the number of documents of
\* companies_ref, persons_ref, persons_emb or companies_emb, nor the length of
\* an employees array; a document differs afterwards at most in its age and
\* name fields.
SameBut(before, after, Restore(_, _)) ==
    /\ Len(after) = Len(before)
    /\ \A k \in DOMAIN before : Restore(after[k], before[k]) = before[k]

RestoreName(a, b) == [a EXCEPT !.name = b.name]
RestoreAge(a, b) == [a EXCEPT !.age = b.age]
RestoreAgeAndCompanyName(a, b) ==
    [a EXCEPT !.age = b.age, !.company.name = b.company.name]
RestoreNameAndEmployees(a, b) == [a EXCEPT !.name = b.name, !.employees = b.employees]

QueryStepPreserves ==
    pc \in QueryOps =>
        /\ SameBut(companies_ref, companies_ref', RestoreName)
        /\ SameBut(persons_ref, persons_ref', RestoreAge)
        /\ SameBut(persons_emb, persons_emb', RestoreAgeAndCompanyName)
        /\ SameBut(companies_emb, companies_emb', RestoreNameAndEmployees)
        /\ \A k \in DOMAIN companies_emb :
              SameBut(companies_emb[k].employees, companies_emb'[k].employees,
                      RestoreAge)

C12_QueriesPreserveDocuments == [][QueryStepPreserves]_vars

\* two whole suites have run on three persons and two companies, and both the
\* ages and the names were written
C12_Witness ==
    /\ mode = "queries" /\ pc = "idle" /\ queryRuns = 2 /\ runs = 1
    /\ Len(persons_ref) = 3 /\ Len(persons_emb) = 3
    /\ Len(companies_ref) = 2 /\ Len(companies_emb) = 2
    /\ \E k \in DOMAIN persons_ref : persons_ref[k].age = 30
    /\ \A k \in DOMAIN companies_emb : EndsWithSuffix(companies_emb[k].name)
    /\ \E k \in DOMAIN companies_emb : Len(companies_emb[k].employees) = 3

\* C13: once a populate run has built Model R, on either dispatch path,
\* every persons_ref document has the _id of a companies_ref document as its
\* company_id; on the in-memory path the companies of companies_ref carry the
\* identifiers that __temp_comp assigned.
ModelRBuilt ==
    \/ PopulateDone
    \/ mode = "populate" /\ pc \in {"M2_begin", "M2_loop", "M3_begin", "M3_loop",
                                    "m2o_begin", "m2o_loop", "m3o_begin", "m3o_loop"}

C13_CompanyIdResolves ==
    ModelRBuilt =>
        /\ Len(persons_ref) = n_persons /\ Len(companies_ref) = n_companies
        /\ \A k \in DOMAIN persons_ref : HasId(companies_ref, persons_ref[k].company_id)
        /\ (pc # "idle" /\ ~UseOptimized(n_companies, n_persons)) =>
              locals.comp_ids = [k \in DOMAIN companies_ref |-> companies_ref[k]._id]

C13_Witness ==
    /\ mode = "populate" /\ pc = "M2_begin"
    /\ Len(companies_ref) = 2 /\ Len(persons_ref) = 2
    /\ persons_ref[1].company_id = companies_ref[2]._id
    /\ persons_ref[2].company_id = companies_ref[1]._id
    /\ locals.comp_ids = <<companies_ref[1]._id, companies_ref[2]._id>>

\* C14: a person whose company_id names no document of companies_ref gets the
\* same treatment from every builder of persons_emb and companies_emb. No
\* builder keeps a record of skipped persons, so the one policy left is to
\* fail fast: a builder that has ended on such a Model R has ended with an
\* error; none has written a persons_emb document whose company is missing,
\* and none has ended normally with a person left out of its collection.
Dangling ==
    \E k \in DOMAIN persons_ref : ~HasId(companies_ref, persons_ref[k].company_id)
BuilderModes == {"unit_M2_optimized", "unit_M3_optimized", "unit_M2", "unit_M3"}
Embedded == Len(Flatten([k \in DOMAIN companies_emb |-> companies_emb[k].employees]))

C14_DanglingPolicy ==
    /\ \A k \in DOMAIN persons_emb : HasId(companies_ref, persons_emb[k].company._id)
    /\ (pc = "idle" /\ mode \in BuilderModes /\ companies_ref # <<>> /\ Dangling) =>
          error # "none"
    /\ (pc = "idle" /\ mode \in {"unit_M3_optimized", "unit_M3"}
          /\ companies_ref # <<>> /\ error = "none") =>
          Embedded = Len(persons_ref)

\* C15: Q1 returns one (full name, company name) pair per person in each of
\* the three models: the count each Q1 reports is the number of persons its
\* model holds, which on a freshly populated dataset of N persons is N, and
\* the k-th row of Model R and of Model E-in-P carries the k-th person's name.
Q1Ops == {"M1_Q1", "M2_Q1", "M3_Q1"}

C15_Q1OneRowPerPerson ==
    mode = "queries" =>
        /\ out["M1_Q1"] \in {NotReported, Len(persons_ref)}
        /\ out["M2_Q1"] \in {NotReported, Len(persons_emb)}
        /\ out["M3_Q1"] \in {NotReported, Embedded}
        /\ (runs = 1 /\ n_companies >= 1 /\ n_persons >= 1) =>
              \A op \in Q1Ops : out[op] \in {NotReported, n_persons}
        /\ LET q1 == Q1_M1(persons_ref, companies_ref)
               q2 == Q1_M2(persons_emb)
           IN  /\ Len(q1) = Len(persons_ref) /\ Len(q2) = Len(persons_emb)
               /\ \A k \in DOMAIN persons_ref :
                     /\ q1[k].full_name = FullName(persons_ref[k])
                     /\ \E c \in DOMAIN companies_ref :
                           /\ companies_ref[c]._id = persons_ref[k].company_id
                           /\ companies_ref[c].name = q1[k].company_name
               /\ \A k \in DOMAIN persons_emb :
                     /\ q2[k].full_name = FullName(persons_emb[k])
                     /\ q2[k].company.name = persons_emb[k].company.name

C15_Witness ==
    /\ mode = "queries" /\ pc = "M3_Q2" /\ runs = 1 /\ n_persons = 3
    /\ \A op \in Q1Ops : out[op] = 3
    /\ Len(companies_emb) = 2
    /\ Len(companies_emb[1].employees) = 1 /\ Len(companies_emb[2].employees) = 2

\* C16: generate_and_populate_companies_batched returns one identifier per
\* requested company, the i-th being the _id of the i-th document inserted
\* into companies_ref, chunk after chunk, none repeated; the list it builds
\* has this form after every chunk.
IdsOf(coll) == [k \in DOMAIN coll |-> coll[k]._id]
Injective(ids) == \A j, k \in DOMAIN ids : j # k => ids[j] # ids[k]

C16_ReturnedIdList ==
    /\ pc = "gapc_loop" =>
          locals.all_company_ids = IdsOf(companies_ref)
    /\ (pc = "idle" /\ mode = "unit_companies") =>
          /\ Len(locals.company_ids) = n_companies
          /\ locals.company_ids = IdsOf(companies_ref)
          /\ Injective(locals.company_ids)

\* two companies were loaded and the list of their identifiers was returned
C16_Witness ==
    /\ pc = "idle" /\ mode = "unit_companies"
    /\ n_companies = 2 /\ Len(locals.company_ids) = 2
    /\ locals.company_ids[1] # locals.company_ids[2]
    /\ companies_ref[2]._id = locals.company_ids[2]

\* C17: on every populate path the secondary indexes of a target collection
\* are in place once the collection has been dropped and before its first
\* chunk is inserted, so that they are there while the chunks are inserted
\* and when the run has completed.
Loading(coll) ==
    CASE coll = "companies_ref" -> pc \in {"gapc_loop", "M1_companies"}
      [] coll = "persons_ref"   -> pc \in {"gapp_loop", "M1_persons"}
      [] coll = "persons_emb"   -> pc \in {"m2o_loop", "M2_loop"}
      [] coll = "companies_emb" -> pc \in {"m3o_loop", "M3_loop"}

DeclaredIndexes(coll) ==
    CASE coll = "companies_ref" -> CompaniesRefIndexes
      [] coll = "persons_ref"   -> PersonsRefIndexes
      [] coll = "persons_emb"   -> PersonsEmbIndexes
      [] coll = "companies_emb" -> CompaniesEmbIndexes

Targets == {"companies_ref", "persons_ref", "persons_emb", "companies_emb"}

C17_IndexesBeforeChunks ==
    (mode = "populate" /\ n_companies >= 1 /\ n_persons >= 1) =>
        \A coll \in Targets :
            (Loading(coll) \/ PopulateDone) => indexes[coll] = DeclaredIndexes(coll)

\* C18: Q3 on Model E-in-C sets age to 30 on the employees born before the
\* cutoff and on no other: an employee born on or after the cutoff keeps its
\* age, every employee keeps its names and birth date, every employees array
\* keeps its length and order, and nothing else of a company changes.
Q3EmployeesStep ==
    (pc = "M3_Q3" /\ pc' = "M3_Q4") =>
        /\ Len(companies_emb') = Len(companies_emb)
        /\ \A k \in DOMAIN companies_emb :
              LET before == companies_emb[k]
                  after  == companies_emb'[k]
              IN  /\ [after EXCEPT !.employees = before.employees] = before
                  /\ Len(after.employees) = Len(before.employees)
                  /\ \A j \in DOMAIN before.employees :
                        /\ [after.employees[j] EXCEPT !.age = before.employees[j].age]
                              = before.employees[j]
                        /\ after.employees[j].age =
                              IF before.employees[j].birth_date < Q3Cutoff
                              THEN Q3Age ELSE before.employees[j].age

C18_Q3ArrayFrame == [][Q3EmployeesStep]_vars

\* Q3 has run on a company that employs one person born before the cutoff,
\* now aged 30, and one born on the cutoff day, whose age is as generated
C18_Witness ==
    /\ mode = "queries" /\ pc = "M3_Q4" /\ out["M3_Q3"] = 1
    /\ \E k \in DOMAIN companies_emb :
          \E i, j \in DOMAIN companies_emb[k].employees :
              /\ companies_emb[k].employees[i].birth_date < Q3Cutoff
              /\ companies_emb[k].employees[i].age = Q3Age
              /\ companies_emb[k].employees[j].birth_date = Q3Cutoff
              /\ companies_emb[k].employees[j].age # Q3Age

\* C19: the rows of Q1 and Q2 of Model E-in-P are determined by persons_emb
\* alone: a step of the query suite that leaves persons_emb as it is, whatever
\* it does to companies_ref (M1's Q4 renames its companies), leaves the rows
\* that M2's Q1 and Q2 return as they are.
M2ReadsStep ==
    (mode = "queries" /\ persons_emb' = persons_emb) =>
        /\ Q1_M2(persons_emb') = Q1_M2(persons_emb)
        /\ Q2_M2(companies_ref', persons_emb') = Q2_M2(companies_ref, persons_emb)

C19_M2ReadsOnlyPersonsEmb == [][M2ReadsStep]_vars

\* C20: for every date of birth the generator can draw, of a person who is
\* between 18 and 80 years old today, the age stored with the person is
\* between 18 and 80, on the in-memory generator (days // 365) and on the
\* streaming generator (days // 365.25).
C20_StoredAgeInRange ==
    mode \in {"unit_generate_persons", "unit_person_batch"} =>
        \A k \in DOMAIN locals.persons :
            (locals.persons[k].birth_date \in DateOfBirth) =>
                /\ locals.persons[k].age >= MinimumAge
                /\ locals.persons[k].age <= MaximumAge

\* C21: for every pair (n_companies, n_persons) of at least one company and
\* one person, the batch size populate_data gives the builder of Model E-in-C
\* is strictly smaller than the one it gives the loader of persons into
\* Model R on the same path, and every batch size it chooses is at least 1.
C21_WindowSmallerThanChunk ==
    mode = "unit_sizes" =>
        /\ locals.M3 < locals.persons
        /\ \A f \in DOMAIN locals \ {"path"} : locals[f] >= 1

\* C22: in populate_M2_optimized the window holds fewer than batch_size
\* persons whenever a person is about to be buffered, so never more than
\* batch_size; the persons buffered are those streamed since the last insert,
\* all earlier ones being in persons_emb; every insert of a window issues
\* exactly one lookup on companies_ref, over the distinct company ids of that
\* window, and appends the window's persons in order; and when the builder
\* returns, the k-th document of persons_emb is the k-th person of
\* persons_ref, each person once, those of a shorter last window included.
Embeds(e, p) ==
    /\ e.first_name = p.first_name /\ e.last_name = p.last_name
    /\ e.birth_date = p.birth_date /\ e.age = p.age
    /\ e.company._id = p.company_id

M2WindowState ==
    pc = "m2o_loop" =>
        /\ locals.batch_size >= 1
        /\ Len(locals.batch_persons) < locals.batch_size
        /\ locals.cursor = Len(persons_emb) + Len(locals.batch_persons)
        /\ locals.processed = Len(persons_emb)
        /\ locals.batch_persons =
              SubSeq(persons_ref, Len(persons_emb) + 1, locals.cursor)
        /\ \A k \in DOMAIN persons_emb : Embeds(persons_emb[k], persons_ref[k])

M2WindowStep ==
    pc = "m2o_loop" =>
        LET window == IF locals.cursor < Len(persons_ref)
                      THEN Append(locals.batch_persons, persons_ref[locals.cursor + 1])
                      ELSE locals.batch_persons
            call == insert_person_batches(window, companies_ref, persons_emb, 0)
        IN  /\ Len(window) <= locals.batch_size
            /\ persons_emb' # persons_emb =>
                  /\ Len(call.lookups) = 1
                  /\ call.lookups[1] = {window[k].company_id : k \in DOMAIN window}
                  /\ persons_emb' = call.coll
                  /\ Len(persons_emb') = Len(persons_emb) + Len(window)
                  /\ pc' = "m2o_loop" => locals'.batch_persons = <<>>
            /\ (pc' # "m2o_loop" /\ error' = "none") =>
                  /\ Len(persons_emb') = Len(persons_ref)
                  /\ \A k \in DOMAIN persons_ref :
                        Embeds(persons_emb'[k], persons_ref[k])

C22_StreamingWindows == [](M2WindowState) /\ [][M2WindowStep]_vars

\* the builder has returned after streaming three persons of two companies
C22_Witness ==
    /\ pc = "idle" /\ mode = "unit_M2_optimized" /\ error = "none"
    /\ Len(persons_ref) = 3 /\ Len(persons_emb) = 3
    /\ persons_emb[1].company._id # persons_emb[2].company._id
    /\ \A k \in 1..3 : Embeds(persons_emb[k], persons_ref[k])

====
